---- MODULE Spec2Model ----
(***************************************************************************)
(* A model of ml_simulator.py: the label generator, the prediction         *)
(* synthesizers, the metrics engine, the MLSimulator orchestrator and the  *)
(* experiment drivers compare_models and scan_difficulty.                  *)
(*                                                                         *)
(* Numbers.  Python floats that are configuration values, labels, logits   *)
(* and regression predictions are fixed-point integers in units of         *)
(* 1/Scale; probabilities are fixed-point integers in units of 1/PScale,   *)
(* fine enough that the logistic transform stays strictly increasing on    *)
(* the logits the model produces.  Metric values are exact rationals       *)
(* <<num, den>> over these integers; NaN is the rational <<0, 0>>.         *)
(* Optional values are sequences of length 0 (None) or 1.                  *)
(***************************************************************************)
EXTENDS Integers, Sequences, FiniteSets, TLC

\* ------------------------------------------------------------------ bounds
MaxSamples == 2
MaxEntropy == 1
MaxNames == 2       \* most model names in one compare_models request
MaxValues == 2      \* most swept values in one scan_difficulty request
MaxRuns == 2        \* most runs per swept value
MaxPoints == 2      \* most training fractions in one simulate_learning_curve request
MaxUnseededRuns == 1  \* most runs of one scan_difficulty request without a seed

\* ------------------------------------------------------------- numbers
Scale == 1000
PScale == 1000000

None == <<>>
Some(x) == <<x>>
IsNone(o) == Len(o) = 0
Val(o) == o[1]

\* the sequence f, its elements computed once
Arr(f) == f \o <<>>

Abs(x) == IF x < 0 THEN -x ELSE x
Max2(a, b) == IF a >= b THEN a ELSE b
Min2(a, b) == IF a <= b THEN a ELSE b

RECURSIVE Gcd(_, _)
Gcd(a, b) == IF b = 0 THEN a ELSE Gcd(b, a % b)

\* Rationals <<n, d>> with d > 0 in lowest terms.  d = 0 marks the values
\* that are not of that form: <<0, 0>> is NaN, <<1, 0>> and <<-1, 0>> are a
\* quotient by the bare epsilon (a magnitude of 1e12 or more), positive or
\* negative.
NaN == <<0, 0>>
IsNaN(r) == r[2] = 0 /\ r[1] = 0
Finite(r) == r[2] # 0
Sign(x) == IF x > 0 THEN 1 ELSE IF x < 0 THEN -1 ELSE 0
Rat(n, d) == LET g == Gcd(Abs(n), d) IN <<n \div g, d \div g>>
RatNeg(a) == <<-a[1], a[2]>>
RatAdd(a, b) ==
    IF IsNaN(a) \/ IsNaN(b) THEN NaN
    ELSE IF Finite(a) /\ Finite(b) THEN Rat(a[1] * b[2] + b[1] * a[2], a[2] * b[2])
    ELSE IF Finite(a) THEN b
    ELSE IF Finite(b) \/ a = b THEN a
    ELSE NaN
RatSub(a, b) == RatAdd(a, RatNeg(b))
RatMul(a, b) ==
    IF IsNaN(a) \/ IsNaN(b) THEN NaN
    ELSE IF Finite(a) /\ Finite(b) THEN Rat(a[1] * b[1], a[2] * b[2])
    ELSE <<Sign(a[1]) * Sign(b[1]), 0>>
\* comparisons with NaN are false, as for IEEE floats
RatLe(a, b) ==
    /\ ~IsNaN(a)
    /\ ~IsNaN(b)
    /\ IF Finite(a) /\ Finite(b) THEN a[1] * b[2] <= b[1] * a[2]
       ELSE IF Finite(a) THEN b[1] > 0
       ELSE IF Finite(b) THEN a[1] < 0
       ELSE a[1] <= b[1]
Zero == <<0, 1>>
One == <<1, 1>>
InUnit(r) == RatLe(Zero, r) /\ RatLe(r, One)
\* a / n for an integer n > 0
RatDivInt(a, n) == IF Finite(a) THEN Rat(a[1], a[2] * n) ELSE a

RECURSIVE SeqSum(_)
SeqSum(s) == IF Len(s) = 0 THEN 0 ELSE Head(s) + SeqSum(Tail(s))

RECURSIVE RatSum(_)
RatSum(s) == IF Len(s) = 0 THEN Zero ELSE RatAdd(Head(s), RatSum(Tail(s)))

Count(mask) == Cardinality({i \in DOMAIN mask : mask[i]})

\* a / (b + 1e-12) for numerator a and denominator b that are non-negative
\* rationals: 0 when a = 0 (also for b = 0, where the epsilon alone is the
\* denominator), a / b otherwise, the epsilon being below the resolution of
\* the rationals.
SmoothDiv(a, b) ==
    IF a[1] = 0 THEN Zero
    ELSE IF b[1] = 0 THEN <<Sign(a[1]), 0>>
    ELSE Rat(a[1] * b[2], a[2] * b[1])

\* y at x by linear interpolation between the breakpoints xs (ascending)
\* with values ys; clamped outside the breakpoints
Interp(xs, ys, x) ==
    IF x <= xs[1] THEN ys[1]
    ELSE IF x >= xs[Len(xs)] THEN ys[Len(ys)]
    ELSE LET k == CHOOSE j \in 1..(Len(xs) - 1) : xs[j] <= x /\ x < xs[j + 1]
         IN ys[k] + ((ys[k + 1] - ys[k]) * (x - xs[k])) \div (xs[k + 1] - xs[k])

\* np.exp(x) for x <= 0 (x in 1/Scale, result in 1/PScale)
ExpNeg(x) ==
    Interp(<<-6000, -5500, -5000, -4500, -4000, -3500, -3000, -2500, -2000,
             -1500, -1000, -500, 0>>,
           <<2479, 4087, 6738, 11109, 18316, 30197, 49787, 82085, 135335,
             223130, 367879, 606531, 1000000>>, x)

\* 1 / (1 + np.exp(-x)) (x in 1/Scale, result in 1/PScale)
Sigmoid(x) ==
    LET pos(z) == Interp(<<0, 500, 1000, 1500, 2000, 2500, 3000, 3500, 4000,
                           4500, 5000, 5500, 6000>>,
                         <<500000, 622459, 731059, 817574, 880797, 924142,
                           952574, 970688, 982014, 989013, 993307, 995930,
                           997527>>, z)
    IN IF x >= 0 THEN pos(x) ELSE PScale - pos(-x)

\* -np.log(np.clip(p, 1e-15, 1)) (p in 1/PScale, result in 1/Scale)
NegLog(p) ==
    IF p <= 0 THEN 34539
    ELSE Interp(<<1, 10, 100, 1000, 10000, 20000, 50000, 100000, 200000,
                  300000, 400000, 500000, 600000, 700000, 800000, 900000,
                  1000000>>,
                <<13816, 11513, 9210, 6908, 4605, 3912, 2996, 2303, 1609,
                  1204, 916, 693, 511, 357, 223, 105, 0>>, p)

\* ------------------------------------------------- configuration values
BINARY == "binary"
MULTICLASS == "multiclass"
REGRESSION == "regression"
TaskType == {BINARY, MULTICLASS, REGRESSION}

AllTasks == <<"binary", "multiclass", "regression">>

ModelProfile(b, v, c, nt, ss, ns, nz, tasks) ==
    [bias |-> b, variance |-> v, capacity |-> c, noise_tolerance |-> nt,
     separability_sensitivity |-> ss, nonlinearity_sensitivity |-> ns,
     noise_sensitivity |-> nz, supported_tasks |-> tasks]

Entry(n, p) == [name |-> n, profile |-> p]

\* the named-profile table at startup: an insertion-ordered mapping
PREDEFINED_MODEL_PROFILES ==
    <<Entry("svm", ModelProfile(500, 200, 600, 400, 1200, 300, 1000, <<"binary">>)),
      Entry("rf", ModelProfile(300, 400, 700, 800, 800, 600, 1000, AllTasks)),
      Entry("lgbm", ModelProfile(300, 300, 800, 600, 900, 900, 700, AllTasks)),
      Entry("dnn", ModelProfile(200, 700, 950, 500, 1000, 1000, 1000, AllTasks)),
      Entry("cnn", ModelProfile(300, 500, 850, 600, 800, 900, 1000, AllTasks)),
      Entry("rnn", ModelProfile(400, 600, 800, 500, 900, 800, 1000, AllTasks)),
      Entry("transformer", ModelProfile(200, 900, 980, 400, 1000, 1000, 1000, AllTasks)),
      Entry("logreg", ModelProfile(500, 100, 500, 500, 1000, 100, 1000,
                                   <<"binary", "multiclass">>)),
      Entry("xgboost", ModelProfile(300, 300, 800, 700, 900, 900, 1000, AllTasks)),
      Entry("catboost", ModelProfile(300, 250, 780, 750, 850, 850, 1000, AllTasks))>>

\* list(table.keys()), name in table, table[name]
Keys(t) == [i \in 1..Len(t) |-> t[i].name]
Has(t, n) == \E i \in 1..Len(t) : t[i].name = n
Lookup(t, n) == t[CHOOSE i \in 1..Len(t) : t[i].name = n].profile

TaskConfig(tt, n, k, dist, seed) ==
    [task_type |-> tt, num_samples |-> n, n_classes |-> k,
     label_distribution |-> dist, random_state |-> seed]

DifficultyConfig(sep, ln, fn, nl, sc) ==
    [separability |-> sep, label_noise |-> ln, feature_noise |-> fn,
     nonlinearity |-> nl, spurious_correlation |-> sc]

RegressionConfig(fc, nl, het) ==
    [function_complexity |-> fc, noise_level |-> nl, heteroscedastic |-> het]

DefaultDifficulty == DifficultyConfig(600, 100, 200, 700, 300)
DefaultRegression == RegressionConfig(800, 200, TRUE)
DefaultProfile == ModelProfile(500, 300, 700, 500, 1000, 1000, 1000, AllTasks)

\* the model argument of MLSimulator: a name (str) or a ModelProfile value
Named(n) == [isstr |-> TRUE, name |-> n, profile |-> DefaultProfile]
Custom(p) == [isstr |-> FALSE, name |-> "", profile |-> p]

\* ------------------------------------------------------- random streams
\* np.random.default_rng(seed): the state of a stream that is a function of
\* the integer seed alone (a Lehmer generator modulo the prime 65537).
NextState(s) == (s * 75) % 65537
SeededState(seed) == NextState(NextState((seed % 65536) + 1))

\* default_rng as if the seed were dropped: every stream starts from the
\* operating system's entropy
default_rng_unseeded(random_state) == {SeededState(e + 1000) : e \in 0..MaxEntropy}

\* the states a fresh default_rng(random_state) can start in: one for an
\* integer seed, any of the operating system's entropy values for None
default_rng(random_state) ==
    IF IsNone(random_state) THEN {SeededState(e + 1000) : e \in 0..MaxEntropy}
    ELSE {SeededState(Val(random_state))}

\* the state after k draws
RECURSIVE StateAt(_, _)
StateAt(s, k) == IF k = 0 THEN s ELSE NextState(StateAt(s, k - 1))

\* the k-th draw (k >= 1) of the stream started in state s, as a uniform
\* integer in 0..65535
Raw(s, k) == StateAt(s, k) - 1
\* rng.random(): uniform on [0, 1), in 1/Scale
Uniform(s, k) == (Raw(s, k) * Scale) \div 65536
\* rng.integers(0, n)
UniformInt(s, k, n) == (Raw(s, k) * n) \div 65536
\* a standard normal draw in 1/Scale: the stream's uniform draw mapped to the
\* midpoint quantile of one of eight equiprobable bins
StdNormal(s, k) ==
    <<-1534, -887, -489, -157, 157, 489, 887, 1534>>[(Raw(s, k) * 8) \div 65536 + 1]
\* rng.normal(0, sd), sd in 1/Scale
Normal(s, k, sd) == (sd * StdNormal(s, k)) \div Scale

\* ---------------------------------------------------------------- errors
NoError == [type |-> "", what |-> "", names |-> <<>>]
ValueError(what, names) == [type |-> "ValueError", what |-> what, names |-> names]
TypeError(what) == [type |-> "TypeError", what |-> what, names |-> <<>>]

\* ------------------------------------------------------- label generator
\* class_probs / class_probs.sum(), as rationals (NaN for a zero sum)
Renormalize(class_probs) ==
    Arr([j \in 1..Len(class_probs) |->
           IF SeqSum(class_probs) = 0 THEN NaN
           ELSE Rat(class_probs[j] * Sign(SeqSum(class_probs)), Abs(SeqSum(class_probs)))])

\* one draw of rng.choice(len(p), p = p): the number of entries of the
\* cumulative distribution that are <= the uniform draw
Choice(p, s, k) ==
    LET cdf(j) == RatSum(SubSeq(p, 1, j))
    IN Cardinality({j \in 1..Len(p) : cdf(j)[1] * 65536 <= Raw(s, k) * cdf(j)[2]})

Labels(error, y, class_probs) == [error |-> error, y |-> y, class_probs |-> class_probs]

\* generate_labels without the length validation of label_distribution
generate_labels_unchecked(task_config, s) ==
    LET n == task_config.num_samples
    IN IF task_config.task_type = REGRESSION
       THEN Labels(NoError, Arr([i \in 1..n |-> StdNormal(s, i)]), <<>>)
       ELSE IF IsNone(task_config.label_distribution)
       THEN Labels(NoError, Arr([i \in 1..n |-> UniformInt(s, i, task_config.n_classes)]), <<>>)
       ELSE LET class_probs == Renormalize(Val(task_config.label_distribution))
            IN IF \E j \in 1..Len(class_probs) : IsNaN(class_probs[j])
               THEN Labels(ValueError("probabilities contain NaN", <<>>), <<>>, class_probs)
               ELSE Labels(NoError, Arr([i \in 1..n |-> Choice(class_probs, s, i)]), class_probs)

\* generate_labels(task_config) with the stream rng started in state s: the
\* error raised or the labels y, and the distribution they were drawn from
generate_labels(task_config, s) ==
    LET n == task_config.num_samples
    IN IF task_config.task_type = REGRESSION
       THEN Labels(NoError, Arr([i \in 1..n |-> StdNormal(s, i)]), <<>>)
       ELSE IF IsNone(task_config.label_distribution)
       THEN Labels(NoError, Arr([i \in 1..n |-> UniformInt(s, i, task_config.n_classes)]), <<>>)
       ELSE LET class_probs == Renormalize(Val(task_config.label_distribution))
            IN IF Len(class_probs) # task_config.n_classes
               THEN Labels(ValueError("label_distribution length must equal n_classes", <<>>),
                           <<>>, <<>>)
               ELSE IF \E j \in 1..Len(class_probs) : IsNaN(class_probs[j])
               THEN Labels(ValueError("probabilities contain NaN", <<>>), <<>>, class_probs)
               ELSE IF \E j \in 1..Len(class_probs) : class_probs[j][1] < 0
               THEN Labels(ValueError("probabilities are not non-negative", <<>>),
                           <<>>, class_probs)
               ELSE Labels(NoError, Arr([i \in 1..n |-> Choice(class_probs, s, i)]), class_probs)

\* ------------------------------------------------ prediction synthesizers
FMul(a, b) == (a * b) \div Scale

\* the numerator alone: a softmax that does not divide by the row sum
PDiv_unnormalized(a, t) == a

\* a / t in 1/PScale for 0 <= a <= t: the floor of a * PScale / t, by long
\* division
PDiv(a, t) ==
    LET q1 == (a * 1000) \div t
        r1 == (a * 1000) % t
        q2 == (r1 * 100) \div t
        r2 == (r1 * 100) % t
    IN q1 * 1000 + q2 * 10 + (r2 * 10) \div t

\* noisy_mask[i]: the i-th draw of the stream against label_noise
NoisyMask(difficulty, s, i) == Uniform(s, i) < difficulty.label_noise

\* the base signal of class c (0-based) for a sample of label true_label,
\* before the mask is applied
BaseSignal(difficulty, model_profile, true_label, c) ==
    IF c = true_label
    THEN LET m == FMul(difficulty.separability, model_profile.capacity)
         IN IF difficulty.nonlinearity > 500
            THEN FMul(m, Scale - FMul(model_profile.nonlinearity_sensitivity,
                                      difficulty.nonlinearity - 500))
            ELSE m
    ELSE -FMul(difficulty.separability, 500)

\* a signal that the mask lowers for the true class only
Mu_true_class_only(y_true, difficulty, model_profile, s, i, c) ==
    IF NoisyMask(difficulty, s, i) /\ c = y_true[i]
    THEN FMul(BaseSignal(difficulty, model_profile, y_true[i], c), 100)
    ELSE BaseSignal(difficulty, model_profile, y_true[i], c)

\* mu of sample i (1-based) for class c (0-based): the base signal, times
\* 0.1 when the sample is masked
Mu(y_true, difficulty, model_profile, s, i, c) ==
    IF NoisyMask(difficulty, s, i)
    THEN FMul(BaseSignal(difficulty, model_profile, y_true[i], c), 100)
    ELSE BaseSignal(difficulty, model_profile, y_true[i], c)

\* a logit that the spurious correlation of the task shifts
Logit_spurious(y_true, difficulty, model_profile, n_classes, s, i, c) ==
    LET draw == Len(y_true) + 2 * ((i - 1) * n_classes + c)
        eps_sample == Normal(s, draw + 1, difficulty.feature_noise)
        eps_model == Normal(s, draw + 2, model_profile.variance)
        bias_effect == IF c # y_true[i] THEN model_profile.bias ELSE 0
    IN Mu(y_true, difficulty, model_profile, s, i, c) + eps_sample + eps_model
          + bias_effect + difficulty.spurious_correlation

\* the logit of sample i (1-based) for class c (0-based)
Logit(y_true, difficulty, model_profile, n_classes, s, i, c) ==
    LET draw == Len(y_true) + 2 * ((i - 1) * n_classes + c)
        eps_sample == Normal(s, draw + 1, difficulty.feature_noise)
        eps_model == Normal(s, draw + 2, model_profile.variance)
        bias_effect == IF c # y_true[i] THEN model_profile.bias ELSE 0
    IN Mu(y_true, difficulty, model_profile, s, i, c) + eps_sample + eps_model + bias_effect

\* a synthesizer whose two-class branch transforms the logit of the true
\* class of each sample
generate_classification_predictions_true_class(y_true, difficulty, model_profile, task_config, s) ==
    LET n_classes == task_config.n_classes
        logits == Arr([i \in 1..Len(y_true) |-> Arr([c \in 1..n_classes |->
                     Logit(y_true, difficulty, model_profile, n_classes, s, i, c - 1)])])
    IN IF n_classes = 2
       THEN Arr([i \in 1..Len(y_true) |->
               LET prob_pos == Sigmoid(logits[i][y_true[i] + 1])
               IN <<PScale - prob_pos, prob_pos>>])
       ELSE Arr([i \in 1..Len(y_true) |->
               LET mx == CHOOSE m \in {logits[i][c] : c \in 1..n_classes} :
                            \A c \in 1..n_classes : logits[i][c] <= m
                   exp_logits == Arr([c \in 1..n_classes |-> ExpNeg(logits[i][c] - mx)])
               IN Arr([c \in 1..n_classes |-> PDiv(exp_logits[c], SeqSum(exp_logits))])])

\* generate_classification_predictions with the stream rng started in state
\* s: the probability matrix, one row (indexed 1..n_classes, class c at c+1)
\* per sample
generate_classification_predictions(y_true, difficulty, model_profile, task_config, s) ==
    LET n_classes == task_config.n_classes
        logits == Arr([i \in 1..Len(y_true) |-> Arr([c \in 1..n_classes |->
                     Logit(y_true, difficulty, model_profile, n_classes, s, i, c - 1)])])
    IN IF n_classes = 2
       THEN Arr([i \in 1..Len(y_true) |->
               LET prob_pos == Sigmoid(logits[i][2]) IN <<PScale - prob_pos, prob_pos>>])
       ELSE Arr([i \in 1..Len(y_true) |->
               LET mx == CHOOSE m \in {logits[i][c] : c \in 1..n_classes} :
                            \A c \in 1..n_classes : logits[i][c] <= m
                   exp_logits == Arr([c \in 1..n_classes |-> ExpNeg(logits[i][c] - mx)])
               IN Arr([c \in 1..n_classes |-> PDiv(exp_logits[c], SeqSum(exp_logits))])])

\* a regression synthesizer whose observation noise grows with the
\* difficulty's feature_noise
generate_regression_predictions_feature_noise(y_true, difficulty, model_profile, task_config, reg_config, s) ==
    LET n == Len(y_true)
        approximation_quality ==
            FMul(model_profile.capacity, Scale - FMul(reg_config.function_complexity, 500))
    IN Arr([i \in 1..n |-> FMul(y_true[i], approximation_quality)
                            + Normal(s, i, reg_config.noise_level + difficulty.feature_noise)
                            + Normal(s, n + i, FMul(model_profile.variance, 500))])

\* generate_regression_predictions with the stream rng started in state s
generate_regression_predictions(y_true, difficulty, model_profile, task_config, reg_config, s) ==
    LET n == Len(y_true)
        approximation_quality ==
            FMul(model_profile.capacity, Scale - FMul(reg_config.function_complexity, 500))
        noise_std(i) == IF reg_config.heteroscedastic
                        THEN FMul(reg_config.noise_level, Scale + FMul(500, Abs(y_true[i])))
                        ELSE reg_config.noise_level
    IN Arr([i \in 1..n |-> FMul(y_true[i], approximation_quality)
                            + Normal(s, i, noise_std(i))
                            + Normal(s, n + i, FMul(model_profile.variance, 500))])

\* --------------------------------------------------------- metrics engine
Int2Rat(k) == <<k, 1>>
Column(y_prob, c) == Arr([i \in 1..Len(y_prob) |-> y_prob[i][c + 1]])

\* np.argsort(x) + its inverse: the 1-based position of element i in the
\* ascending order of x, equal elements in index order
RankAsc(x, i) ==
    1 + Cardinality({j \in 1..Len(x) : x[j] < x[i] \/ (x[j] = x[i] /\ j < i)})
\* the index of the element at 1-based position k of np.argsort(-x)
AtDesc(x, k) ==
    CHOOSE i \in 1..Len(x) :
        1 + Cardinality({j \in 1..Len(x) : x[j] > x[i] \/ (x[j] = x[i] /\ j < i)}) = k

\* an argmax that takes the highest index of a maximal entry
ArgMax_last(row) ==
    CHOOSE c \in 0..(Len(row) - 1) :
        /\ \A d \in 0..(Len(row) - 1) : row[d + 1] <= row[c + 1]
        /\ \A d \in (c + 1)..(Len(row) - 1) : row[d + 1] < row[c + 1]

\* np.argmax of one row: the lowest 0-based index of a maximal entry
ArgMax(row) ==
    CHOOSE c \in 0..(Len(row) - 1) :
        /\ \A d \in 0..(Len(row) - 1) : row[d + 1] <= row[c + 1]
        /\ \A d \in 0..(c - 1) : row[d + 1] < row[c + 1]

\* precision, recall and F1 by plain division, 0 / 0 being NaN
_precision_recall_f1_binary_unsmoothed(y_true, y_pred) ==
    LET tp == Count([i \in 1..Len(y_true) |-> y_true[i] = 1 /\ y_pred[i] = 1])
        fp == Count([i \in 1..Len(y_true) |-> y_true[i] = 0 /\ y_pred[i] = 1])
        fn == Count([i \in 1..Len(y_true) |-> y_true[i] = 1 /\ y_pred[i] = 0])
        precision == IF tp + fp = 0 THEN NaN ELSE Rat(tp, tp + fp)
        recall == IF tp + fn = 0 THEN NaN ELSE Rat(tp, tp + fn)
        f1 == IF IsNaN(precision) \/ IsNaN(recall) \/ tp = 0 THEN NaN
              ELSE Rat(2 * tp, 2 * tp + fp + fn)
    IN <<precision, recall, f1>>

_precision_recall_f1_binary(y_true, y_pred) ==
    LET tp == Count([i \in 1..Len(y_true) |-> y_true[i] = 1 /\ y_pred[i] = 1])
        fp == Count([i \in 1..Len(y_true) |-> y_true[i] = 0 /\ y_pred[i] = 1])
        fn == Count([i \in 1..Len(y_true) |-> y_true[i] = 1 /\ y_pred[i] = 0])
        precision == SmoothDiv(Int2Rat(tp), Int2Rat(tp + fp))
        recall == SmoothDiv(Int2Rat(tp), Int2Rat(tp + fn))
        f1 == SmoothDiv(RatMul(Int2Rat(2), RatMul(precision, recall)),
                        RatAdd(precision, recall))
    IN <<precision, recall, f1>>

\* np.trapz(y, x)
Trapz(y, x) ==
    RatSum([k \in 1..(Len(x) - 1) |->
              RatMul(RatSub(x[k + 1], x[k]),
                     RatMul(RatAdd(y[k], y[k + 1]), <<1, 2>>))])

\* np.clip(r, 0, 1)
Clip01(r) == IF IsNaN(r) THEN r ELSE IF RatLe(r, Zero) THEN Zero
             ELSE IF RatLe(One, r) THEN One ELSE r

_binary_pr_auc(y_true, y_score) ==
    LET n == Len(y_true)
        y_true_sorted == Arr([k \in 1..n |-> y_true[AtDesc(y_score, k)]])
        tp_cumsum == Arr([k \in 1..n |-> SeqSum(SubSeq(y_true_sorted, 1, k))])
        precision_curve == Arr([k \in 1..n |-> Rat(tp_cumsum[k], k)])
        recall_curve == Arr([k \in 1..n |->
                           SmoothDiv(Int2Rat(tp_cumsum[k]), Int2Rat(SeqSum(y_true_sorted)))])
    IN Clip01(Trapz(precision_curve, recall_curve))

_log_loss_binary(y_true, y_prob) ==
    Rat(SeqSum([i \in 1..Len(y_true) |->
                  y_true[i] * NegLog(y_prob[i]) + (1 - y_true[i]) * NegLog(PScale - y_prob[i])]),
        Len(y_true) * Scale)

\* the rank sum without the n_pos * (n_pos + 1) / 2 correction
_binary_auc_uncorrected(y_true, y_score) ==
    LET n_pos == Count([i \in 1..Len(y_true) |-> y_true[i] = 1])
        n_neg == Count([i \in 1..Len(y_true) |-> y_true[i] = 0])
        sum_ranks_pos == SeqSum([i \in 1..Len(y_true) |->
                                   IF y_true[i] = 1 THEN RankAsc(y_score, i) ELSE 0])
    IN IF n_pos = 0 \/ n_neg = 0 THEN NaN
       ELSE Rat(sum_ranks_pos, n_pos * n_neg)

\* a rank sum over the descending order of the scores
_binary_auc_descending(y_true, y_score) ==
    LET n_pos == Count([i \in 1..Len(y_true) |-> y_true[i] = 1])
        n_neg == Count([i \in 1..Len(y_true) |-> y_true[i] = 0])
        sum_ranks_pos == SeqSum([i \in 1..Len(y_true) |->
                                   IF y_true[i] = 1
                                   THEN Len(y_true) + 1 - RankAsc(y_score, i) ELSE 0])
    IN IF n_pos = 0 \/ n_neg = 0 THEN NaN
       ELSE Rat(2 * sum_ranks_pos - n_pos * (n_pos + 1), 2 * n_pos * n_neg)

_binary_auc(y_true, y_score) ==
    LET n_pos == Count([i \in 1..Len(y_true) |-> y_true[i] = 1])
        n_neg == Count([i \in 1..Len(y_true) |-> y_true[i] = 0])
        sum_ranks_pos == SeqSum([i \in 1..Len(y_true) |->
                                   IF y_true[i] = 1 THEN RankAsc(y_score, i) ELSE 0])
    IN IF n_pos = 0 \/ n_neg = 0 THEN NaN
       ELSE Rat(2 * sum_ranks_pos - n_pos * (n_pos + 1), 2 * n_pos * n_neg)

\* the macro and the weighted F1 of _precision_recall_f1_multiclass
\* the one-vs-rest AUC of class c (from 0)
OvrAuc(y_true, y_prob, c) ==
    _binary_auc([i \in 1..Len(y_true) |-> IF y_true[i] = c THEN 1 ELSE 0], Column(y_prob, c))

\* a macro average that keeps the undefined classes: NaN as soon as one
\* class is undefined
_multiclass_auc_ovr_macro_unfiltered(y_true, y_prob, n_classes) ==
    RatDivInt(RatSum([c \in 1..n_classes |-> OvrAuc(y_true, y_prob, c - 1)]), n_classes)

_multiclass_auc_ovr_macro(y_true, y_prob, n_classes) ==
    LET aucs == SelectSeq([c \in 1..n_classes |-> OvrAuc(y_true, y_prob, c - 1)],
                          LAMBDA auc_c : ~IsNaN(auc_c))
    IN IF Len(aucs) = 0 THEN NaN ELSE RatDivInt(RatSum(aucs), Len(aucs))

_precision_recall_f1_multiclass(y_true, y_pred, n_classes) ==
    LET tp(c) == Count([i \in 1..Len(y_true) |-> y_true[i] = c /\ y_pred[i] = c])
        fp(c) == Count([i \in 1..Len(y_true) |-> y_true[i] # c /\ y_pred[i] = c])
        fn(c) == Count([i \in 1..Len(y_true) |-> y_true[i] = c /\ y_pred[i] # c])
        support(c) == Count([i \in 1..Len(y_true) |-> y_true[i] = c])
        precision(c) == SmoothDiv(Int2Rat(tp(c)), Int2Rat(tp(c) + fp(c)))
        recall(c) == SmoothDiv(Int2Rat(tp(c)), Int2Rat(tp(c) + fn(c)))
        f1(c) == SmoothDiv(RatMul(Int2Rat(2), RatMul(precision(c), recall(c))),
                           RatAdd(precision(c), recall(c)))
        macro_f1 == RatDivInt(RatSum([c \in 1..n_classes |-> f1(c - 1)]), n_classes)
        weighted_f1 ==
            RatDivInt(RatSum([c \in 1..n_classes |->
                                RatMul(f1(c - 1), Int2Rat(support(c - 1)))]),
                      SeqSum([c \in 1..n_classes |-> support(c - 1)]))
    IN <<macro_f1, weighted_f1>>

_top_k_accuracy(y_true, y_prob, k) ==
    Rat(Count([i \in 1..Len(y_true) |->
                 \E q \in 1..Min2(k, Len(y_prob[i])) : AtDesc(y_prob[i], q) = y_true[i] + 1]),
        Len(y_true))

_log_loss_multiclass(y_true, y_prob) ==
    Rat(SeqSum([i \in 1..Len(y_true) |-> NegLog(y_prob[i][y_true[i] + 1])]),
        Len(y_true) * Scale)

\* floor of the square root
RECURSIVE ISqrtIn(_, _, _)
ISqrtIn(x, lo, hi) ==
    IF lo >= hi THEN lo
    ELSE LET mid == (lo + hi + 1) \div 2
         IN IF mid * mid <= x THEN ISqrtIn(x, mid, hi) ELSE ISqrtIn(x, lo, mid - 1)
ISqrt(x) == ISqrtIn(x, 0, Min2(x, 46340))

\* a compute_regression_metrics whose mae averages the signed residuals
compute_regression_metrics_signed(y_true, y_pred) ==
    LET n == Len(y_true)
        residuals == Arr([i \in 1..n |-> y_true[i] - y_pred[i]])
        ss_res == SeqSum([i \in 1..n |-> residuals[i] * residuals[i]])
        n_ss_tot == n * SeqSum([i \in 1..n |-> y_true[i] * y_true[i]])
                     - SeqSum(y_true) * SeqSum(y_true)
    IN [rmse |-> IF n = 0 THEN NaN ELSE Rat(ISqrt(ss_res \div n), Scale),
        mae |-> IF n = 0 THEN NaN ELSE Rat(SeqSum(residuals), n * Scale),
        r2 |-> RatSub(One, SmoothDiv(Int2Rat(ss_res),
                                     IF n = 0 THEN Zero ELSE Rat(n_ss_tot, n)))]

\* np.mean of an empty array is NaN (a warning, no error); np.sum of one is 0
compute_regression_metrics(y_true, y_pred) ==
    LET n == Len(y_true)
        residuals == Arr([i \in 1..n |-> y_true[i] - y_pred[i]])
        ss_res == SeqSum([i \in 1..n |-> residuals[i] * residuals[i]])
        \* n * sum((y - mean(y)) ^ 2)
        n_ss_tot == n * SeqSum([i \in 1..n |-> y_true[i] * y_true[i]])
                     - SeqSum(y_true) * SeqSum(y_true)
    IN [rmse |-> IF n = 0 THEN NaN ELSE Rat(ISqrt(ss_res \div n), Scale),
        mae |-> IF n = 0 THEN NaN
                ELSE Rat(SeqSum([i \in 1..n |-> Abs(residuals[i])]), n * Scale),
        r2 |-> RatSub(One, SmoothDiv(Int2Rat(ss_res),
                                     IF n = 0 THEN Zero ELSE Rat(n_ss_tot, n)))]

compute_classification_metrics(y_true, y_prob, n_classes) ==
    LET y_pred == Arr([i \in 1..Len(y_true) |-> ArgMax(y_prob[i])])
        accuracy == Rat(Count([i \in 1..Len(y_true) |-> y_pred[i] = y_true[i]]), Len(y_true))
    IN IF n_classes = 2
       THEN LET prf == _precision_recall_f1_binary(y_true, y_pred)
            IN [task_type |-> "binary",
                accuracy |-> accuracy,
                precision |-> prf[1],
                recall |-> prf[2],
                f1 |-> prf[3],
                roc_auc |-> _binary_auc(y_true, Column(y_prob, 1)),
                pr_auc |-> _binary_pr_auc(y_true, Column(y_prob, 1)),
                logloss |-> _log_loss_binary(y_true, Column(y_prob, 1))]
       ELSE LET prf == _precision_recall_f1_multiclass(y_true, y_pred, n_classes)
            IN [task_type |-> "multiclass",
                accuracy |-> accuracy,
                macro_f1 |-> prf[1],
                weighted_f1 |-> prf[2],
                logloss |-> _log_loss_multiclass(y_true, y_prob),
                top_3_accuracy |-> _top_k_accuracy(y_true, y_prob, 3)]

\* ------------------------------------------------------------ orchestrator
Sim(task_config, difficulty, model_profile, reg_config, y_true) ==
    [task_config |-> task_config, difficulty |-> difficulty,
     model_profile |-> model_profile, reg_config |-> reg_config, y_true |-> y_true]

\* what a constructor call did: the error it raised, the instance it
\* produced, whether it reached generate_labels, and the distribution the
\* labels were drawn from
Constructed(error, self, generated, class_probs) ==
    [error |-> error, self |-> self, generated_labels |-> generated,
     class_probs |-> class_probs]

\* a constructor that generates the labels before it resolves the name
MLSimulator_labels_first(table_, task_config_, difficulty_, model_profile_, reg_config_, s) ==
    LET lab == generate_labels(task_config_, s)
        reg == IF IsNone(reg_config_) THEN DefaultRegression ELSE Val(reg_config_)
    IN IF lab.error # NoError
       THEN Constructed(lab.error, None, TRUE, lab.class_probs)
       ELSE IF model_profile_.isstr /\ ~Has(table_, model_profile_.name)
       THEN Constructed(ValueError("unknown model", Keys(table_)), None, TRUE, lab.class_probs)
       ELSE Constructed(NoError,
                        Some(Sim(task_config_, difficulty_,
                                 IF model_profile_.isstr
                                 THEN Lookup(table_, model_profile_.name)
                                 ELSE model_profile_.profile,
                                 reg, lab.y)),
                        TRUE, lab.class_probs)

\* MLSimulator.__init__ against the named-profile table, with the label
\* stream started in state s
MLSimulator(table_, task_config_, difficulty_, model_profile_, reg_config_, s) ==
    IF model_profile_.isstr /\ ~Has(table_, model_profile_.name)
    THEN Constructed(ValueError("unknown model", Keys(table_)), None, FALSE, <<>>)
    ELSE LET profile == IF model_profile_.isstr THEN Lookup(table_, model_profile_.name)
                        ELSE model_profile_.profile
             reg == IF IsNone(reg_config_) THEN DefaultRegression ELSE Val(reg_config_)
             lab == generate_labels(task_config_, s)
         IN IF lab.error # NoError
            THEN Constructed(lab.error, None, TRUE, lab.class_probs)
            ELSE Constructed(NoError,
                             Some(Sim(task_config_, difficulty_, profile, reg, lab.y)),
                             TRUE, lab.class_probs)

\* a get_predictions that continues a stream simulate() has already drawn
\* from, instead of starting its own
get_predictions_continued(self, s) ==
    IF self.task_config.task_type = REGRESSION
    THEN generate_regression_predictions(self.y_true, self.difficulty, self.model_profile,
                                         self.task_config, self.reg_config, NextState(s))
    ELSE generate_classification_predictions(self.y_true, self.difficulty,
                                             self.model_profile, self.task_config,
                                             NextState(s))

\* MLSimulator.get_predictions with the prediction stream started in state s
get_predictions(self, s) ==
    IF self.task_config.task_type = REGRESSION
    THEN generate_regression_predictions(self.y_true, self.difficulty, self.model_profile,
                                         self.task_config, self.reg_config, s)
    ELSE generate_classification_predictions(self.y_true, self.difficulty,
                                             self.model_profile, self.task_config, s)

\* what a simulate() call did: the instance after the call, the labels and
\* the predictions the metrics were computed from, and the record returned
Simulated(self, y_true, y_pred, metrics) ==
    [self |-> self, y_true |-> y_true, y_pred |-> y_pred, metrics |-> metrics]

\* a simulate() that draws the labels again, from the stream in state s,
\* and caches them
simulate_relabel(self, s) ==
    LET fresh == [self EXCEPT !.y_true = generate_labels(self.task_config, s).y]
        y_pred == IF self.task_config.task_type = REGRESSION
                  THEN generate_regression_predictions(
                           fresh.y_true, self.difficulty, self.model_profile,
                           self.task_config, self.reg_config, s)
                  ELSE generate_classification_predictions(
                           fresh.y_true, self.difficulty, self.model_profile,
                           self.task_config, s)
    IN Simulated(fresh, fresh.y_true, y_pred,
                 IF self.task_config.task_type = REGRESSION
                 THEN compute_regression_metrics(fresh.y_true, y_pred)
                 ELSE compute_classification_metrics(fresh.y_true, y_pred,
                                                     self.task_config.n_classes))

\* MLSimulator.simulate with the prediction stream started in state s
simulate(self, s) ==
    IF self.task_config.task_type = REGRESSION
    THEN LET y_pred == generate_regression_predictions(
                           self.y_true, self.difficulty, self.model_profile,
                           self.task_config, self.reg_config, s)
         IN Simulated(self, self.y_true, y_pred,
                      compute_regression_metrics(self.y_true, y_pred))
    ELSE LET y_prob == generate_classification_predictions(
                           self.y_true, self.difficulty, self.model_profile,
                           self.task_config, s)
         IN Simulated(self, self.y_true, y_prob,
                      compute_classification_metrics(self.y_true, y_prob,
                                                     self.task_config.n_classes))

\* ------------------------------------------------------------------ drivers
KeyError(what) == [type |-> "KeyError", what |-> what, names |-> <<>>]

\* a pandas DataFrame: its column labels and its rows, each row a mapping
\* from column label to cell
DataFrame(columns, rows) == [columns |-> columns, rows |-> rows]

\* pd.DataFrame(results) for a list of dicts
FrameOf(results) ==
    DataFrame(UNION {DOMAIN results[i] : i \in 1..Len(results)}, results)

\* what a driver call did: the error it raised or the table it returned, and
\* the orchestrator instances it ran to completion with the record of each
Driven(error, df, runs) == [error |-> error, df |-> df, runs |-> runs]

\* what one run of a driver loop did: the error the constructor raised, or
\* the instance and the record of its simulate()
Failed(error) == [error |-> error, self |-> None, metrics |-> None]
Ran(r) == [error |-> NoError, self |-> Some(r.self), metrics |-> Some(r.metrics)]
Constructed_simulate(c, s) == IF c.error # NoError THEN Failed(c.error) ELSE Ran(simulate(Val(c.self), s))

\* MLSimulator(...).simulate() on fresh streams st = <<labels, predictions>>
Run(table_, task_config_, difficulty_, model_profile_, reg_config_, st) ==
    Constructed_simulate(
        MLSimulator(table_, task_config_, difficulty_, model_profile_, reg_config_, st[1]),
        st[2])

\* the runs of a driver loop up to its first failure, and that failure
Completed(run) ==
    LET failed == {i \in 1..Len(run) : run[i].error # NoError}
        last == IF failed = {} THEN Len(run)
                ELSE (CHOOSE i \in failed : \A j \in failed : i <= j) - 1
    IN [error |-> IF failed = {} THEN NoError ELSE run[last + 1].error,
        runs |-> Arr([i \in 1..last |->
                        [self |-> Val(run[i].self), metrics |-> Val(run[i].metrics)]])]

\* the start states of the two streams of each run, given the runs' seeds
RECURSIVE Streams(_)
Streams(random_states) ==
    IF Len(random_states) = 0 THEN {<<>>}
    ELSE {<<<<a, b>>>> \o rest :
             a \in default_rng(Head(random_states)),
             b \in default_rng(Head(random_states)),
             rest \in Streams(Tail(random_states))}

\* a compare_models that swallows the error of a run and returns the rows
\* of the names before it
ComparedFrame_partial(model_names, done) ==
    Driven(NoError,
           Some(FrameOf(Arr([i \in 1..Len(done.runs) |->
                    [model |-> model_names[i]] @@ done.runs[i].metrics]))),
           done.runs)

\* the table of compare_models from the completed runs: each record tagged
\* with its model name
ComparedFrame(model_names, done) ==
    IF done.error # NoError THEN Driven(done.error, None, done.runs)
    ELSE Driven(NoError,
                Some(FrameOf(Arr([i \in 1..Len(model_names) |->
                         [model |-> model_names[i]] @@ done.runs[i].metrics]))),
                done.runs)

\* compare_models that resolves every name through the named-profile table
compare_models_table_only(table_, task_config_, difficulty_, model_names, reg_config_, custom_profiles, streams) ==
    ComparedFrame(model_names,
        Completed(Arr([i \in 1..Len(model_names) |->
            Run(table_, task_config_, difficulty_, Named(model_names[i]), reg_config_,
                streams[i])])))

\* the profile argument compare_models hands to the constructor for a name
ProfileFor(custom_profiles, model_name) ==
    IF /\ ~IsNone(custom_profiles)
       /\ Len(Val(custom_profiles)) > 0
       /\ Has(Val(custom_profiles), model_name)
    THEN Custom(Lookup(Val(custom_profiles), model_name))
    ELSE Named(model_name)

compare_models(table_, task_config_, difficulty_, model_names, reg_config_, custom_profiles, streams) ==
    ComparedFrame(model_names,
        Completed(Arr([i \in 1..Len(model_names) |->
            Run(table_, task_config_, difficulty_,
                ProfileFor(custom_profiles, model_names[i]), reg_config_, streams[i])])))

\* the fields of DifficultyConfig
DifficultyFields == DOMAIN DefaultDifficulty

\* the record columns that hold strings (dtype object)
ObjectColumns == {"task_type"}

\* a finite rational in 1/Scale, rounded down (long division, three digits)
ToFixed(r) ==
    LET r0 == r[1] % r[2]
        r1 == (r0 * 10) % r[2]
        r2 == (r1 * 10) % r[2]
    IN (r[1] \div r[2]) * Scale + ((r0 * 10) \div r[2]) * 100
       + ((r1 * 10) \div r[2]) * 10 + (r2 * 10) \div r[2]

\* Series.mean() of a group (NaN cells skipped), on the cells in 1/Scale; a
\* cell beyond the range of the model (a quotient by the bare epsilon)
\* makes the mean one
GroupMean(cells) ==
    LET kept == SelectSeq(cells, LAMBDA x : ~IsNaN(x))
        huge == SelectSeq(kept, LAMBDA x : ~Finite(x))
    IN IF Len(kept) = 0 THEN NaN
       ELSE IF Len(huge) > 0 THEN <<Sign(SeqSum([i \in 1..Len(huge) |-> huge[i][1]])), 0>>
       ELSE Rat(SeqSum([i \in 1..Len(kept) |-> ToFixed(kept[i])]), Scale * Len(kept))

\* Series.std() of a group (NaN cells skipped, ddof = 1): NaN for fewer than
\* two cells
GroupStd(cells) ==
    LET kept == SelectSeq(cells, LAMBDA x : ~IsNaN(x))
        huge == SelectSeq(kept, LAMBDA x : ~Finite(x))
        fixed == [i \in 1..Len(kept) |-> ToFixed(kept[i])]
        mean == SeqSum(fixed) \div Len(kept)
    IN IF Len(kept) < 2 THEN NaN
       ELSE IF Len(huge) > 0 THEN <<1, 0>>
       ELSE Rat(ISqrt(SeqSum([i \in 1..Len(kept) |-> (fixed[i] - mean) * (fixed[i] - mean)])
                      \div (Len(kept) - 1)),
                Scale)

\* the elements of a finite set of integers, ascending
RECURSIVE Sorted(_)
Sorted(S) ==
    IF S = {} THEN <<>>
    ELSE LET m == CHOOSE x \in S : \A y \in S : x <= y
         IN <<m>> \o Sorted(S \ {m})

\* a row extended by one cell per column in cells, each column renamed with
\* the suffix
RECURSIVE WithColumns(_, _, _)
WithColumns(row, cells, suffix) ==
    IF DOMAIN cells = {} THEN row
    ELSE LET c == CHOOSE c \in DOMAIN cells : TRUE
         IN WithColumns(row @@ ((c \o suffix) :> cells[c]),
                        [d \in DOMAIN cells \ {c} |-> cells[d]], suffix)

\* df.groupby(by)[cols].mean() and .std(), renamed, concatenated and with
\* the sorted index turned into a column again; numeric_only is the default
\* of the pandas build for a column of strings among cols: drop it, or raise
GroupedFrame(df, by, cols, numeric_only) ==
    LET numeric == cols \ ObjectColumns
        keys == Sorted({df.rows[i][by] : i \in 1..Len(df.rows)})
        group(k) == SelectSeq(df.rows, LAMBDA row : row[by] = k)
        cells(k, c) == LET g == group(k) IN [i \in 1..Len(g) |-> g[i][c]]
        row(k) == WithColumns(
                      WithColumns(by :> k, [c \in numeric |-> GroupMean(cells(k, c))], "_mean"),
                      [c \in numeric |-> GroupStd(cells(k, c))], "_std")
    IN IF by \notin df.columns THEN Driven(KeyError(by), None, <<>>)
       ELSE IF ~numeric_only /\ cols \cap ObjectColumns # {}
       THEN Driven(TypeError("agg function failed"), None, <<>>)
       ELSE Driven(NoError,
                   Some(DataFrame({by} \cup {c \o "_mean" : c \in numeric}
                                       \cup {c \o "_std" : c \in numeric},
                                  Arr([i \in 1..Len(keys) |-> row(keys[i])]))),
                   <<>>)

\* a scan that hands every run the seed of the caller's config
RunSeed_fixed(random_state, run) == random_state

\* the seed of run number run (from 0) of a scan
RunSeed(random_state, run) ==
    IF IsNone(random_state) THEN None ELSE Some(Val(random_state) + run)

\* the value and the run number (from 0) of iteration k of the scan loop
ScanValue(difficulty_values, n_runs, k) == difficulty_values[((k - 1) \div n_runs) + 1]
ScanRun(n_runs, k) == (k - 1) % n_runs

\* the loop of scan_difficulty: one orchestrator run per value and run
\* number, each on the default RegressionConfig
ScanRuns(table_, task_config_, model_name, difficulty_param, difficulty_values, base, n_runs, streams) ==
    Completed(Arr([k \in 1..(Len(difficulty_values) * n_runs) |->
        Run(table_,
            [task_config_ EXCEPT
                !.random_state = RunSeed(task_config_.random_state, ScanRun(n_runs, k))],
            [base EXCEPT ![difficulty_param] = ScanValue(difficulty_values, n_runs, k)],
            Named(model_name), None, streams[k])]))

\* df = pd.DataFrame(results) of the scan: each record with the swept value
\* and the run number
ScanFrame(runs, difficulty_param, difficulty_values, n_runs) ==
    FrameOf(Arr([k \in 1..Len(runs) |->
        ("run" :> ScanRun(n_runs, k))
            @@ (difficulty_param :> ScanValue(difficulty_values, n_runs, k))
            @@ runs[k].metrics]))

\* the table with one row per run: the cells of the run under the _mean
\* columns, NaN under the _std columns
UngroupedFrame(df, by, cols) ==
    Driven(NoError,
           Some(DataFrame({by} \cup {c \o "_mean" : c \in cols \ ObjectColumns}
                               \cup {c \o "_std" : c \in cols \ ObjectColumns},
                          Arr([k \in 1..Len(df.rows) |->
                              WithColumns(
                                  WithColumns(by :> df.rows[k][by],
                                      [c \in cols \ ObjectColumns |-> df.rows[k][c]], "_mean"),
                                  [c \in cols \ ObjectColumns |-> NaN], "_std")]))),
           <<>>)

ScanAggregated_ungrouped(done, df, difficulty_param, numeric_only) ==
    IF done.error # NoError THEN Driven(done.error, None, done.runs)
    ELSE [UngroupedFrame(df, difficulty_param, df.columns \ {difficulty_param, "run"})
            EXCEPT !.runs = done.runs]

\* the end of scan_difficulty: the aggregate of df, unless a run failed
ScanAggregated(done, df, difficulty_param, numeric_only) ==
    IF done.error # NoError THEN Driven(done.error, None, done.runs)
    ELSE [GroupedFrame(df, difficulty_param, df.columns \ {difficulty_param, "run"},
                       numeric_only)
            EXCEPT !.runs = done.runs]

ScanDone(done, difficulty_param, difficulty_values, n_runs, numeric_only) ==
    ScanAggregated(done, ScanFrame(done.runs, difficulty_param, difficulty_values, n_runs),
                   difficulty_param, numeric_only)

scan_difficulty(table_, task_config_, model_name, difficulty_param, difficulty_values, base_difficulty, n_runs, streams, numeric_only) ==
    IF Len(difficulty_values) > 0 /\ difficulty_param \notin DifficultyFields
    THEN Driven(TypeError("unexpected keyword argument"), None, <<>>)
    ELSE ScanDone(ScanRuns(table_, task_config_, model_name, difficulty_param,
                           difficulty_values,
                           IF IsNone(base_difficulty) THEN DefaultDifficulty
                           ELSE Val(base_difficulty),
                           n_runs, streams),
                  difficulty_param, difficulty_values, n_runs, numeric_only)

\* the learning-curve parameters of simulate_learning_curve, in 1/Scale
CurveShape(acc_10, acc_100, alpha, noise_std_start, noise_std_end) ==
    [acc_10 |-> acc_10, acc_100 |-> acc_100, alpha |-> alpha,
     noise_std_start |-> noise_std_start, noise_std_end |-> noise_std_end]

\* train_sizes.min() and train_sizes.max()
SeqMin(x) == CHOOSE m \in {x[i] : i \in 1..Len(x)} : \A i \in 1..Len(x) : m <= x[i]
SeqMax(x) == CHOOSE m \in {x[i] : i \in 1..Len(x)} : \A i \in 1..Len(x) : m >= x[i]

\* the normalized progress t of the training fraction s, in 1/Scale
CurveT(train_sizes, s) ==
    IF SeqMax(train_sizes) > SeqMin(train_sizes)
    THEN ((s - SeqMin(train_sizes)) * Scale) \div (SeqMax(train_sizes) - SeqMin(train_sizes))
    ELSE Scale

\* base_acc = acc_10 + (acc_100 - acc_10) * (1 - np.exp(-alpha * t))
BaseAcc(shape, t) ==
    shape.acc_10
        + ((shape.acc_100 - shape.acc_10) * (PScale - ExpNeg(-FMul(shape.alpha, t)))) \div PScale

\* noise_std = noise_std_start * (1 - t) + noise_std_end
NoiseStd(shape, t) == FMul(shape.noise_std_start, Scale - t) + shape.noise_std_end

\* noisy_acc of point k: the base accuracy plus the k-th draw of the
\* driver's own stream, started in state s
NoisyAcc(shape, train_sizes, s, k) ==
    BaseAcc(shape, CurveT(train_sizes, train_sizes[k]))
        + Normal(s, k, NoiseStd(shape, CurveT(train_sizes, train_sizes[k])))

\* an adjusted difficulty that keeps the clamped separability and takes
\* every other field from the defaults of DifficultyConfig
AdjustedDifficulty_defaults(difficulty_, noisy_acc) ==
    [DefaultDifficulty EXCEPT !.separability = Max2(100, Min2(990, noisy_acc))]

\* the difficulty handed to the orchestrator for a noisy accuracy
AdjustedDifficulty(difficulty_, noisy_acc) ==
    DifficultyConfig(Max2(100, Min2(990, noisy_acc)), difficulty_.label_noise,
                     difficulty_.feature_noise, difficulty_.nonlinearity,
                     difficulty_.spurious_correlation)

\* the loop of simulate_learning_curve: one orchestrator run per fraction
CurveRuns(table_, model_name, task_config_, difficulty_, train_sizes, shape, s, streams) ==
    Completed(Arr([k \in 1..Len(train_sizes) |->
        Run(table_, task_config_,
            AdjustedDifficulty(difficulty_, NoisyAcc(shape, train_sizes, s, k)),
            Named(model_name), None, streams[k])]))

\* a float in 1/Scale as a table cell
Cell(x) == Rat(x, Scale)

\* the table of simulate_learning_curve from the completed runs
CurveFrame(done, train_sizes, shape, s) ==
    IF done.error # NoError THEN Driven(done.error, None, done.runs)
    ELSE Driven(NoError,
                Some(FrameOf(Arr([k \in 1..Len(train_sizes) |->
                    [train_ratio |-> Cell(train_sizes[k]),
                     target_accuracy |->
                         Cell(Max2(0, Min2(Scale, NoisyAcc(shape, train_sizes, s, k)))),
                     base_accuracy |->
                         Cell(BaseAcc(shape, CurveT(train_sizes, train_sizes[k])))]
                    @@ done.runs[k].metrics]))),
                done.runs)

\* simulate_learning_curve with its own stream started in state s, the
\* stream of the validation labels in state s_val, and the streams of the
\* runs
simulate_learning_curve(table_, model_name, task_config_, difficulty_, train_sizes, shape, s, s_val, streams) ==
    IF generate_labels(task_config_, s_val).error # NoError
    THEN Driven(generate_labels(task_config_, s_val).error, None, <<>>)
    ELSE IF Len(train_sizes) = 0
    THEN Driven(ValueError("zero-size array to reduction operation", <<>>), None, <<>>)
    ELSE CurveFrame(CurveRuns(table_, model_name, task_config_, difficulty_, train_sizes,
                              shape, s, streams),
                    train_sizes, shape, s)

\* ----------------------------------------------------------- boundary layer
\* a JSON request body, with the fields the four endpoints read (a field an
\* endpoint does not read is left at its default)
Request(endpoint, task_type, label_distribution, models, custom_profile, experiment_type, n_folds, train_sizes, model, difficulty_param, difficulty_values, n_runs) ==
    [endpoint |-> endpoint, task_type |-> task_type,
     label_distribution |-> label_distribution, models |-> models,
     custom_profile |-> custom_profile, experiment_type |-> experiment_type,
     n_folds |-> n_folds, train_sizes |-> train_sizes, model |-> model,
     difficulty_param |-> difficulty_param, difficulty_values |-> difficulty_values,
     n_runs |-> n_runs]

\* what a handler returns: the JSON body's success flag and error message,
\* the HTTP status, and the table in the body
Response(success, status, error, body) ==
    [success |-> success, status |-> status, error |-> error, body |-> body]

\* an except branch that forgets the status
Handled_status_ok(d) ==
    IF d.error # NoError THEN Response(FALSE, 200, d.error, None)
    ELSE Response(TRUE, 200, NoError, d.df)

\* try: ... return jsonify(success=True, ...) / except Exception as e:
\* return jsonify(success=False, error=str(e)), 500
Handled(d) ==
    IF d.error # NoError THEN Response(FALSE, 500, d.error, None)
    ELSE Response(TRUE, 200, NoError, d.df)

\* TaskType(task_type_str)
ParseTaskType(token) ==
    IF token \in TaskType THEN NoError ELSE ValueError("is not a valid TaskType", <<token>>)

\* the TaskConfig a handler builds: one sample, two classes, seed 42 + offset
ApiTaskConfig(data, offset) ==
    TaskConfig(data.task_type, 1, 2, data.label_distribution, Some(42 + offset))

\* the two streams of a run under an integer seed
IntStream(seed) ==
    <<CHOOSE a \in default_rng(Some(seed)) : TRUE, CHOOSE b \in default_rng(Some(seed)) : TRUE>>

\* model_profiles of /api/simulate: the custom profile under every requested
\* name, or nothing
ApiProfiles(data) ==
    IF IsNone(data.custom_profile) \/ Len(data.models) = 0 THEN None
    ELSE Some([i \in 1..Len(data.models) |-> Entry(data.models[i], Val(data.custom_profile))])

\* the error of the first table that has one
FirstError(ds) ==
    IF \A i \in 1..Len(ds) : ds[i].error = NoError THEN NoError
    ELSE ds[CHOOSE i \in 1..Len(ds) :
               ds[i].error # NoError /\ \A j \in 1..(i - 1) : ds[j].error = NoError].error

\* the rows of a table, each with one more cell
Tagged(d, column, value) ==
    Arr([i \in 1..Len(Val(d.df).rows) |-> (column :> value) @@ Val(d.df).rows[i]])

RECURSIVE Concat(_)
Concat(rowss) == IF Len(rowss) = 0 THEN <<>> ELSE Head(rowss) \o Concat(Tail(rowss))

\* pd.concat(frames): fails on an empty list
ConcatFrames(ds, column, values) ==
    IF FirstError(ds) # NoError THEN Driven(FirstError(ds), None, <<>>)
    ELSE IF Len(ds) = 0 THEN Driven(ValueError("No objects to concatenate", <<>>), None, <<>>)
    ELSE Driven(NoError,
                Some(FrameOf(Concat(Arr([k \in 1..Len(ds) |-> Tagged(ds[k], column, values[k])])))),
                <<>>)

\* a frame that is then grouped by a column: the column must exist
GroupableBy(d, by) ==
    IF d.error # NoError THEN d
    ELSE IF by \notin Val(d.df).columns THEN Driven(KeyError(by), None, <<>>)
    ELSE d

\* experiment type cv of /api/simulate: compare_models per fold under the
\* seed 42 + fold, the tables concatenated and grouped by model
ApiFolds(table_, data) ==
    Arr([f \in 1..data.n_folds |->
        compare_models(table_, ApiTaskConfig(data, f - 1), DefaultDifficulty, data.models,
                       None, ApiProfiles(data),
                       [i \in 1..Len(data.models) |-> IntStream(42 + f - 1)])])

api_simulate_cv(table_, data) ==
    GroupableBy(ConcatFrames(ApiFolds(table_, data), "fold",
                             [f \in 1..data.n_folds |-> f - 1]), "model")

\* the accuracies the learning-curve experiment estimates from a profile
ApiShape(profile) ==
    LET acc_10 == Max2(200, Min2(800, 350 + FMul(profile.capacity, 250)
                                          - FMul(profile.variance, 150)))
        acc_100 == Max2(400, Min2(990, 450 + FMul(profile.capacity, 500)
                                           - FMul(profile.bias, 100)))
    IN CurveShape(acc_10, IF acc_100 <= acc_10 THEN acc_10 + 150 ELSE acc_100, 2500, 20, 5)

\* the adjusted difficulty of the learning-curve experiment at progress t,
\* for draw k of the experiment's stream
ApiAdjusted(shape, t, s, k) ==
    DifficultyConfig(
        Max2(200, Min2(980, BaseAcc(shape, t) + Normal(s, k, NoiseStd(shape, t)))),
        Min2(500, FMul(DefaultDifficulty.label_noise, Scale + FMul(Scale - t, 500))),
        Min2(500, FMul(DefaultDifficulty.feature_noise, Scale + FMul(Scale - t, 300))),
        DefaultDifficulty.nonlinearity, DefaultDifficulty.spurious_correlation)

\* the number of requested names before the first one whose profile cannot
\* be looked up
Resolvable(table_, data) ==
    LET bad == {m \in 1..Len(data.models) :
                   IsNone(data.custom_profile) /\ ~Has(table_, data.models[m])}
    IN IF bad = {} THEN Len(data.models)
       ELSE (CHOOSE m \in bad : \A j \in bad : m <= j) - 1

\* the model, fraction and run number (from 0) of iteration k of the
\* learning-curve experiment
ApiModelOf(data, k) == data.models[((k - 1) \div (Len(data.train_sizes) * data.n_runs)) + 1]
ApiSizeOf(data, k) == data.train_sizes[(((k - 1) \div data.n_runs) % Len(data.train_sizes)) + 1]
ApiRunOf(data, k) == (k - 1) % data.n_runs

\* the profile the learning-curve experiment estimates the accuracies from
ApiProfileObject(table_, profile) ==
    IF profile.isstr THEN Lookup(table_, profile.name) ELSE profile.profile

\* the runs of the learning-curve experiment: per name, fraction and run
ApiCurveRuns(table_, data, resolvable, s) ==
    Completed(Arr([k \in 1..(resolvable * Len(data.train_sizes) * data.n_runs) |->
        Run(table_, ApiTaskConfig(data, 0),
            ApiAdjusted(ApiShape(ApiProfileObject(table_,
                                     ProfileFor(ApiProfiles(data), ApiModelOf(data, k)))),
                        CurveT(data.train_sizes, ApiSizeOf(data, k)), s, k),
            ProfileFor(ApiProfiles(data), ApiModelOf(data, k)), None, IntStream(42))]))

ApiCurveFrame(data, resolvable, done) ==
    IF done.error # NoError THEN Driven(done.error, None, done.runs)
    ELSE IF resolvable < Len(data.models)
    THEN Driven(KeyError(data.models[resolvable + 1]), None, done.runs)
    ELSE GroupableBy(
             Driven(NoError,
                    Some(FrameOf(Arr([k \in 1..Len(done.runs) |->
                        [model |-> ApiModelOf(data, k),
                         train_size |-> Cell(ApiSizeOf(data, k)),
                         run |-> ApiRunOf(data, k)]
                        @@ done.runs[k].metrics]))),
                    done.runs),
             "model")

api_simulate_learning_curve(table_, data) ==
    IF Len(data.train_sizes) = 0
    THEN Driven(ValueError("zero-size array to reduction operation", <<>>), None, <<>>)
    ELSE ApiCurveFrame(data, Resolvable(table_, data),
                       ApiCurveRuns(table_, data, Resolvable(table_, data),
                                    IntStream(42)[1]))

\* POST /api/simulate
api_simulate(table_, data) ==
    IF ParseTaskType(data.task_type) # NoError
    THEN Handled(Driven(ParseTaskType(data.task_type), None, <<>>))
    ELSE IF data.experiment_type = "cv" THEN Handled(api_simulate_cv(table_, data))
    ELSE IF data.experiment_type = "learning_curve"
    THEN Handled(api_simulate_learning_curve(table_, data))
    ELSE Handled(compare_models(table_, ApiTaskConfig(data, 0), DefaultDifficulty,
                                data.models, None, ApiProfiles(data),
                                [i \in 1..Len(data.models) |-> IntStream(42)]))

\* the learning curves of POST /api/learning_curve, one per requested model
ApiCurves(table_, data) ==
    Arr([m \in 1..Len(data.models) |->
        simulate_learning_curve(table_, data.models[m], ApiTaskConfig(data, 0),
                                DefaultDifficulty, data.train_sizes,
                                CurveShape(600, 800, 3000, 30, 2),
                                IntStream(42)[1], IntStream(42)[1],
                                [k \in 1..Len(data.train_sizes) |-> IntStream(42)])])

\* POST /api/learning_curve
api_learning_curve(table_, data) ==
    IF ParseTaskType(data.task_type) # NoError
    THEN Handled(Driven(ParseTaskType(data.task_type), None, <<>>))
    ELSE Handled(ConcatFrames(ApiCurves(table_, data), "model", data.models))

\* POST /api/scan_difficulty
api_scan_difficulty(table_, data, numeric_only_) ==
    IF ParseTaskType(data.task_type) # NoError
    THEN Handled(Driven(ParseTaskType(data.task_type), None, <<>>))
    ELSE Handled(scan_difficulty(table_, ApiTaskConfig(data, 0), data.model,
                                 data.difficulty_param, data.difficulty_values,
                                 Some(DefaultDifficulty), data.n_runs,
                                 [k \in 1..(Len(data.difficulty_values) * data.n_runs) |->
                                     IntStream(42 + ((k - 1) % data.n_runs))],
                                 numeric_only_))

\* POST /api/export/csv
export_csv(table_, data) ==
    IF ParseTaskType(data.task_type) # NoError
    THEN Handled(Driven(ParseTaskType(data.task_type), None, <<>>))
    ELSE Handled(compare_models(table_, ApiTaskConfig(data, 0), DefaultDifficulty,
                                data.models, None, None,
                                [i \in 1..Len(data.models) |-> IntStream(42)]))

\* ------------------------------------------------------------ state machine
VARIABLES
    task_config,      \* the caller's TaskConfig
    difficulty,       \* the caller's DifficultyConfig
    reg_config,       \* the caller's RegressionConfig, or None
    profile_table,    \* the process-wide named-profile table
    sims,             \* the caller's two MLSimulator variables: None or an instance
    returned,         \* per instance, what its last simulate() call did
    predictions,      \* what get_predictions() last returned, and for which instance
    last_ctor,        \* what the last constructor call did
    numeric_only,     \* the pandas build: whether a group aggregate drops string columns
    driver_call,      \* the last driver call and its arguments, or None
    driven,           \* what the last driver call did
    fn_args,          \* the arrays a metric or synthesis function is applied to
    fn_result         \* the function last applied to them and what it returned

config_vars == <<task_config, difficulty, reg_config, profile_table>>
sim_vars == <<sims, returned, predictions, last_ctor>>
driver_vars == <<numeric_only, driver_call, driven>>
fn_vars == <<fn_args, fn_result>>
vars == <<config_vars, sim_vars, driver_vars, fn_vars>>

SimIds == {1, 2}

CustomProfile == ModelProfile(200, 700, 900, 500, 1000, 1000, 1000, AllTasks)
HardDifficulty == DifficultyConfig(800, 500, 100, 300, 300)
CustomRegression == RegressionConfig(700, 300, FALSE)

LabelDistributions == {None, Some(<<3, 1>>), Some(<<0, 0>>), Some(<<1, 1, 2>>)}
ModelArgs == {Named("rf"), Named("unknown"), Custom(CustomProfile)}

\* the configurations a caller starts from: every classification shape and
\* every regression shape under the seed 42, one shape per task kind under
\* the seed None, the classification shapes with a single class, and a
\* regression without samples
Scenarios ==
    {<<TaskConfig(REGRESSION, 0, 2, None, Some(42)), DefaultDifficulty, None>>}
    \cup
    {<<TaskConfig(tt, n, k, dist, Some(42)), d, None>> :
        tt \in {BINARY, MULTICLASS}, n \in 1..MaxSamples, k \in {2, 3},
        dist \in LabelDistributions, d \in {DefaultDifficulty, HardDifficulty}}
    \cup
    {<<TaskConfig(REGRESSION, n, 2, dist, Some(42)), DefaultDifficulty, r>> :
        n \in 1..MaxSamples, dist \in {None, Some(<<1, 1, 2>>)},
        r \in {None, Some(CustomRegression)}}
    \cup
    {<<TaskConfig(tt, MaxSamples, 2, None, None), DefaultDifficulty, None>> :
        tt \in {BINARY, REGRESSION}}
    \cup
    {<<TaskConfig(tt, MaxSamples, 1, None, Some(42)), DefaultDifficulty, None>> :
        tt \in {BINARY, MULTICLASS}}

\* what the caller knows of a constructor call: the variable assigned, the
\* model argument, and what the call did
Call(called, slot, model, r) ==
    [called |-> called, slot |-> slot, model |-> model, error |-> r.error,
     generated_labels |-> r.generated_labels, class_probs |-> r.class_probs]
NoCall == Call(FALSE, 1, Named(""), Constructed(NoError, None, FALSE, <<>>))

Init ==
    /\ \E sc \in Scenarios :
          /\ task_config = sc[1]
          /\ difficulty = sc[2]
          /\ reg_config = sc[3]
    /\ profile_table = PREDEFINED_MODEL_PROFILES
    /\ sims = [i \in SimIds |-> None]
    /\ returned = [i \in SimIds |-> None]
    /\ predictions = None
    /\ last_ctor = NoCall
    /\ numeric_only = TRUE
    /\ driver_call = None
    /\ driven = Driven(NoError, None, <<>>)
    /\ fn_args = None
    /\ fn_result = None

\* a constructor that registers a custom profile in the named-profile table
Construct_registering(i) ==
    /\ IsNone(sims[i])
    /\ \E model \in ModelArgs, s \in default_rng(task_config.random_state) :
          LET r == MLSimulator(profile_table, task_config, difficulty, model, reg_config, s)
          IN /\ last_ctor' = Call(TRUE, i, model, r)
             /\ sims' = [sims EXCEPT ![i] = r.self]
             /\ profile_table' = IF model.isstr THEN profile_table
                                 ELSE Append(profile_table, Entry("custom", model.profile))
    /\ UNCHANGED <<task_config, difficulty, reg_config, returned, predictions, driver_vars, fn_vars>>

\* sims[i] = MLSimulator(task_config, difficulty, model, reg_config)
Construct(i) ==
    /\ IsNone(sims[i])
    /\ \E model \in ModelArgs, s \in default_rng(task_config.random_state) :
          LET r == MLSimulator(profile_table, task_config, difficulty, model, reg_config, s)
          IN /\ last_ctor' = Call(TRUE, i, model, r)
             /\ sims' = [sims EXCEPT ![i] = r.self]
    /\ UNCHANGED <<config_vars, returned, predictions, driver_vars, fn_vars>>

\* sims[i].simulate()
Simulate(i) ==
    /\ ~IsNone(sims[i])
    /\ \E s \in default_rng(Val(sims[i]).task_config.random_state) :
          LET r == simulate(Val(sims[i]), s)
          IN /\ sims' = [sims EXCEPT ![i] = Some(r.self)]
             /\ returned' = [returned EXCEPT ![i] = Some(r)]
    /\ UNCHANGED <<config_vars, predictions, last_ctor, driver_vars, fn_vars>>

\* sims[i].get_predictions()
GetPredictions(i) ==
    /\ ~IsNone(sims[i])
    /\ \E s \in default_rng(Val(sims[i]).task_config.random_state) :
          predictions' = Some([by |-> i, value |-> get_predictions(Val(sims[i]), s)])
    /\ UNCHANGED <<config_vars, sims, returned, last_ctor, driver_vars, fn_vars>>

Next ==
    \E i \in SimIds : Construct(i) \/ Simulate(i) \/ GetPredictions(i)

Spec == Init /\ [][Next]_vars

\* ------------------------------------ state machine with a changing difficulty
SpuriousValues == {0, 300, 900}

\* the caller sets the spurious_correlation of its DifficultyConfig
SetSpurious ==
    /\ \E sc \in SpuriousValues \ {difficulty.spurious_correlation} :
          difficulty' = [difficulty EXCEPT !.spurious_correlation = sc]
    /\ UNCHANGED <<task_config, reg_config, profile_table, sim_vars, driver_vars, fn_vars>>

InitSpurious ==
    /\ Init
    /\ task_config \in {TaskConfig(BINARY, MaxSamples, 2, None, Some(42)),
                         TaskConfig(MULTICLASS, MaxSamples, 3, None, Some(42)),
                         TaskConfig(REGRESSION, MaxSamples, 2, None, Some(42))}
    /\ difficulty = DefaultDifficulty

NextSpurious == Next \/ SetSpurious

SpecSpurious == InitSpurious /\ [][NextSpurious]_vars

\* ------------------- state machine of a regression under changing settings
\* the default difficulty and one that differs from it in every field
RegressionDifficulties ==
    {DefaultDifficulty, [HardDifficulty EXCEPT !.spurious_correlation = 900]}

\* the caller sets the DifficultyConfig, and n_classes and label_distribution
\* of its TaskConfig
Reconfigure ==
    /\ \E d \in RegressionDifficulties, k \in {2, 3}, dist \in {None, Some(<<1, 1, 2>>)} :
          /\ <<d, k, dist>> # <<difficulty, task_config.n_classes, task_config.label_distribution>>
          /\ difficulty' = d
          /\ task_config' = [task_config EXCEPT !.n_classes = k, !.label_distribution = dist]
    /\ UNCHANGED <<reg_config, profile_table, sim_vars, driver_vars, fn_vars>>

InitRegression ==
    /\ Init
    /\ task_config = TaskConfig(REGRESSION, MaxSamples, 2, None, Some(42))

NextRegression ==
    \/ \E i \in SimIds : Construct(i) \/ Simulate(i)
    \/ Reconfigure

SpecRegression == InitRegression /\ [][NextRegression]_vars

\* ----------------------------------------------- state machine of the drivers
ModelNames == {"rf", "mine", "unknown"}
CustomProfileTables ==
    {None, Some(<<>>), Some(<<Entry("mine", CustomProfile)>>),
     Some(<<Entry("rf", CustomProfile)>>)}
ScanModels == {"rf", "unknown"}
ScanParams == {"separability", "label_noise", "hardness"}
ScanValues == {300, 800}
BaseDifficulties == {None, Some(HardDifficulty)}

SeqsUpTo(S, n) == UNION {[1..k -> S] : k \in 0..n}

\* the configurations a driver is called with: one per task kind, a
\* regression with its own RegressionConfig, and a label_distribution of
\* the wrong length
DriverScenarios ==
    {<<TaskConfig(BINARY, MaxSamples, 2, None, Some(42)), DefaultDifficulty, None>>,
     <<TaskConfig(MULTICLASS, MaxSamples, 3, None, Some(42)), HardDifficulty, None>>,
     <<TaskConfig(REGRESSION, MaxSamples, 2, None, Some(42)), DefaultDifficulty, None>>,
     <<TaskConfig(REGRESSION, MaxSamples, 2, None, Some(7)), DefaultDifficulty,
       Some(CustomRegression)>>,
     <<TaskConfig(BINARY, MaxSamples, 2, Some(<<1, 1, 2>>), Some(42)), DefaultDifficulty, None>>}

InitDrivers ==
    /\ \E sc \in DriverScenarios :
          /\ task_config = sc[1]
          /\ difficulty = sc[2]
          /\ reg_config = sc[3]
    /\ profile_table = PREDEFINED_MODEL_PROFILES
    /\ sims = [i \in SimIds |-> None]
    /\ returned = [i \in SimIds |-> None]
    /\ predictions = None
    /\ last_ctor = NoCall
    /\ numeric_only \in BOOLEAN
    /\ driver_call = None
    /\ driven = Driven(NoError, None, <<>>)
    /\ fn_args = None
    /\ fn_result = None

\* compare_models(task_config, difficulty, model_names, reg_config, custom_profiles);
\* the drivers keep no state between calls, so a behaviour follows one call
CompareModels ==
    /\ IsNone(driver_call)
    /\ \E model_names \in SeqsUpTo(ModelNames, MaxNames),
          custom_profiles \in CustomProfileTables :
          \E streams \in Streams([i \in 1..Len(model_names) |-> task_config.random_state]) :
             /\ driver_call' = Some([op |-> "compare_models", model_names |-> model_names,
                                     custom_profiles |-> custom_profiles])
             /\ driven' = compare_models(profile_table, task_config, difficulty, model_names,
                                         reg_config, custom_profiles, streams)
    /\ UNCHANGED <<config_vars, sim_vars, numeric_only, fn_vars>>

\* scan_difficulty(task_config, model_name, difficulty_param, difficulty_values,
\*                 base_difficulty, n_runs)
ScanDifficulty ==
    /\ IsNone(driver_call)
    /\ \E model_name \in ScanModels, difficulty_param \in ScanParams,
          difficulty_values \in SeqsUpTo(ScanValues, MaxValues),
          base_difficulty \in BaseDifficulties, n_runs \in 1..MaxRuns :
          /\ IsNone(task_config.random_state)
                => Len(difficulty_values) * n_runs <= MaxUnseededRuns
          /\ \E streams \in Streams([k \in 1..(Len(difficulty_values) * n_runs) |->
                                     RunSeed(task_config.random_state, (k - 1) % n_runs)]) :
             /\ driver_call' = Some([op |-> "scan_difficulty", model_name |-> model_name,
                                     difficulty_param |-> difficulty_param,
                                     difficulty_values |-> difficulty_values,
                                     base_difficulty |-> base_difficulty, n_runs |-> n_runs])
             /\ driven' = scan_difficulty(profile_table, task_config, model_name,
                                          difficulty_param, difficulty_values,
                                          base_difficulty, n_runs, streams, numeric_only)
    /\ UNCHANGED <<config_vars, sim_vars, numeric_only, fn_vars>>

\* the scans alone, also from a task config without a seed
ScanScenarios ==
    {<<TaskConfig(BINARY, MaxSamples, 2, None, Some(42)), DefaultDifficulty, None>>,
     <<TaskConfig(REGRESSION, MaxSamples, 2, None, Some(7)), DefaultDifficulty,
       Some(CustomRegression)>>,
     <<TaskConfig(BINARY, MaxSamples, 2, None, None), DefaultDifficulty, None>>,
     <<TaskConfig(REGRESSION, MaxSamples, 2, None, None), DefaultDifficulty, None>>}

InitScan ==
    /\ \E sc \in ScanScenarios :
          /\ task_config = sc[1]
          /\ difficulty = sc[2]
          /\ reg_config = sc[3]
    /\ profile_table = PREDEFINED_MODEL_PROFILES
    /\ sims = [i \in SimIds |-> None]
    /\ returned = [i \in SimIds |-> None]
    /\ predictions = None
    /\ last_ctor = NoCall
    /\ numeric_only \in BOOLEAN
    /\ driver_call = None
    /\ driven = Driven(NoError, None, <<>>)
    /\ fn_args = None
    /\ fn_result = None

NextScan == ScanDifficulty

SpecScan == InitScan /\ [][NextScan]_vars

TrainSizes == {100, 500, 1000}
CurveShapes ==
    {CurveShape(500, 900, 3000, 30, 2), CurveShape(500, 900, 1000, 0, 0),
     CurveShape(900, 900, 3000, 30, 2), CurveShape(50, 1000, 3000, 30, 2)}

\* simulate_learning_curve(model_name, task_config, difficulty, train_sizes,
\*                         acc_10, acc_100, alpha, noise_std_start, noise_std_end)
LearningCurve ==
    /\ IsNone(driver_call)
    /\ \E model_name \in ScanModels, train_sizes \in SeqsUpTo(TrainSizes, MaxPoints),
          shape \in CurveShapes :
          \E s \in default_rng(task_config.random_state),
             s_val \in default_rng(task_config.random_state),
             streams \in Streams([k \in 1..Len(train_sizes) |-> task_config.random_state]) :
             /\ driver_call' = Some([op |-> "simulate_learning_curve",
                                     model_name |-> model_name,
                                     train_sizes |-> train_sizes, shape |-> shape])
             /\ driven' = simulate_learning_curve(profile_table, model_name, task_config,
                                                  difficulty, train_sizes, shape, s, s_val,
                                                  streams)
    /\ UNCHANGED <<config_vars, sim_vars, numeric_only, fn_vars>>

NextDrivers == CompareModels \/ ScanDifficulty \/ LearningCurve

SpecDrivers == InitDrivers /\ [][NextDrivers]_vars

\* ------------------------ state machine of orchestrator and drivers together
\* a caller that constructs and runs one instance and calls a driver, in any
\* order
InitCore ==
    /\ Init
    /\ task_config = TaskConfig(BINARY, 1, 2, None, Some(42))
    /\ difficulty = DefaultDifficulty

NextCore == Construct(1) \/ Simulate(1) \/ GetPredictions(1) \/ NextDrivers

SpecCore == InitCore /\ [][NextCore]_vars

\* ------------------------------------- state machine of the metric functions
\* rows of a probability matrix, in 1/PScale
ProbRows(n_classes) ==
    IF n_classes = 2
    THEN {<<300000, 700000>>, <<700000, 300000>>, <<500000, 500000>>, <<0, 1000000>>}
    ELSE {<<500000, 300000, 200000>>, <<200000, 300000, 500000>>, <<400000, 400000, 200000>>}

\* the arrays a metric function is called with: integer labels below
\* n_classes and one probability row per sample
FnInputs ==
    UNION {{[y_true |-> y_true, y_prob |-> y_prob, n_classes |-> n_classes] :
               y_true \in [1..n -> 0..(n_classes - 1)],
               y_prob \in [1..n -> ProbRows(n_classes)]} :
           n \in 1..MaxSamples, n_classes \in {2, 3}}

Applied(fn, value) == Some([fn |-> fn, value |-> value])

InitFunctions ==
    /\ task_config = TaskConfig(BINARY, 1, 2, None, Some(42))
    /\ difficulty = DefaultDifficulty
    /\ reg_config = None
    /\ profile_table = PREDEFINED_MODEL_PROFILES
    /\ sims = [i \in SimIds |-> None]
    /\ returned = [i \in SimIds |-> None]
    /\ predictions = None
    /\ last_ctor = NoCall
    /\ numeric_only = TRUE
    /\ driver_call = None
    /\ driven = Driven(NoError, None, <<>>)
    /\ fn_args \in {Some(a) : a \in FnInputs}
    /\ fn_result = None

\* the functions keep no state between calls, so a behaviour follows one call
\* _binary_auc(y_true, y_prob[:, 1])
BinaryAuc ==
    /\ IsNone(fn_result)
    /\ fn_result' = Applied("_binary_auc",
                            _binary_auc(Val(fn_args).y_true, Column(Val(fn_args).y_prob, 1)))
    /\ UNCHANGED <<config_vars, sim_vars, driver_vars, fn_args>>

\* _multiclass_auc_ovr_macro(y_true, y_prob, n_classes)
MulticlassAuc ==
    /\ IsNone(fn_result)
    /\ fn_result' = Applied("_multiclass_auc_ovr_macro",
                            _multiclass_auc_ovr_macro(Val(fn_args).y_true, Val(fn_args).y_prob,
                                                      Val(fn_args).n_classes))
    /\ UNCHANGED <<config_vars, sim_vars, driver_vars, fn_args>>

SignalSeeds == {7, 42}
SignalProfiles == {Lookup(PREDEFINED_MODEL_PROFILES, "rf"), CustomProfile}

\* mu of one sample and one class in the loop of
\* generate_classification_predictions, with the mask of the sample
Signal ==
    /\ IsNone(fn_result)
    /\ \E d \in {DefaultDifficulty, HardDifficulty}, p \in SignalProfiles,
          seed \in SignalSeeds, i \in 1..Len(Val(fn_args).y_true),
          c \in 0..(Val(fn_args).n_classes - 1) :
          \E s \in default_rng(Some(seed)) :
             fn_result' = Applied("mu",
                 [difficulty |-> d, model_profile |-> p,
                  true_label |-> Val(fn_args).y_true[i], c |-> c,
                  noisy_mask |-> NoisyMask(d, s, i),
                  mu |-> Mu(Val(fn_args).y_true, d, p, s, i, c)])
    /\ UNCHANGED <<config_vars, sim_vars, driver_vars, fn_args>>

\* generate_classification_predictions(y_true, difficulty, model_profile,
\* task_config), with the logits of its loop
Synthesize ==
    /\ IsNone(fn_result)
    /\ \E d \in {DefaultDifficulty, HardDifficulty}, p \in SignalProfiles,
          seed \in SignalSeeds :
          \E s \in default_rng(Some(seed)) :
             fn_result' = Applied("generate_classification_predictions",
                 [y_true |-> Val(fn_args).y_true,
                  n_classes |-> Val(fn_args).n_classes,
                  logits |-> Arr([i \in 1..Len(Val(fn_args).y_true) |->
                                Arr([c \in 1..Val(fn_args).n_classes |->
                                   Logit(Val(fn_args).y_true, d, p, Val(fn_args).n_classes,
                                         s, i, c - 1)])]),
                  y_prob |-> generate_classification_predictions(
                                Val(fn_args).y_true, d, p,
                                TaskConfig(IF Val(fn_args).n_classes = 2 THEN BINARY
                                           ELSE MULTICLASS,
                                           Len(Val(fn_args).y_true), Val(fn_args).n_classes,
                                           None, Some(seed)), s)])
    /\ UNCHANGED <<config_vars, sim_vars, driver_vars, fn_args>>

\* _precision_recall_f1_binary(y_true, y_pred) on the labels predicted from
\* the probability rows (np.argmax), as compute_classification_metrics calls it
PrecisionRecallF1 ==
    /\ IsNone(fn_result)
    /\ Val(fn_args).n_classes = 2
    /\ fn_result' = Applied("_precision_recall_f1_binary",
          [y_true |-> Val(fn_args).y_true,
           y_pred |-> Arr([i \in 1..Len(Val(fn_args).y_true) |-> ArgMax(Val(fn_args).y_prob[i])]),
           prf |-> _precision_recall_f1_binary(
                      Val(fn_args).y_true,
                      Arr([i \in 1..Len(Val(fn_args).y_true) |->
                             ArgMax(Val(fn_args).y_prob[i])]))])
    /\ UNCHANGED <<config_vars, sim_vars, driver_vars, fn_args>>

\* compute_classification_metrics(y_true, y_prob, n_classes)
ComputeClassificationMetrics ==
    /\ IsNone(fn_result)
    /\ fn_result' = Applied("compute_classification_metrics",
                            compute_classification_metrics(Val(fn_args).y_true,
                                                           Val(fn_args).y_prob,
                                                           Val(fn_args).n_classes))
    /\ UNCHANGED <<config_vars, sim_vars, driver_vars, fn_args>>

NextFunctions ==
    \/ BinaryAuc \/ MulticlassAuc \/ Signal \/ Synthesize \/ PrecisionRecallF1
    \/ ComputeClassificationMetrics

SpecFunctions == InitFunctions /\ [][NextFunctions]_vars

\* --------------------------------------- state machine of the boundary layer
ApiTokens == {BINARY, REGRESSION, "ranking"}
ApiDistributions == {None, Some(<<1, 1, 2>>)}
ApiModels == SeqsUpTo({"rf", "unknown"}, MaxNames)
ApiCustomProfiles == {None, Some(CustomProfile)}

\* experiment type, n_folds, train_sizes and n_runs of /api/simulate
ApiExperiments ==
    {<<"single", 0, <<>>, 1>>, <<"cv", 0, <<>>, 1>>, <<"cv", 2, <<>>, 1>>,
     <<"learning_curve", 0, <<>>, 1>>, <<"learning_curve", 0, <<100, 1000>>, 1>>,
     <<"learning_curve", 0, <<100, 1000>>, 0>>}

SimulateRequests ==
    {Request("/api/simulate", tt, dist, models, custom, e[1], e[2], e[3], "lgbm",
             "separability", <<>>, e[4]) :
        tt \in ApiTokens, dist \in ApiDistributions, models \in ApiModels,
        custom \in ApiCustomProfiles, e \in ApiExperiments}

\* the models of /api/learning_curve are the keys of a JSON object
LearningCurveRequests ==
    {Request("/api/learning_curve", tt, dist, models, None, "single", 0, sizes, "lgbm",
             "separability", <<>>, 1) :
        tt \in ApiTokens, dist \in ApiDistributions,
        models \in {m \in ApiModels : \A i, j \in 1..Len(m) : m[i] = m[j] => i = j},
        sizes \in {<<>>, <<100, 1000>>}}

ScanRequests ==
    {Request("/api/scan_difficulty", tt, dist, <<>>, None, "single", 0, <<>>, model,
             param, values, n_runs) :
        tt \in ApiTokens, dist \in ApiDistributions, model \in ScanModels,
        param \in ScanParams, values \in SeqsUpTo(ScanValues, MaxValues),
        n_runs \in 1..MaxRuns}

ExportRequests ==
    {Request("/api/export/csv", tt, dist, models, None, "single", 0, <<>>, "lgbm",
             "separability", <<>>, 1) :
        tt \in ApiTokens, dist \in ApiDistributions, models \in ApiModels}

ApiRequests == SimulateRequests \cup LearningCurveRequests \cup ScanRequests \cup ExportRequests

\* the server before it answers one request
InitApi ==
    /\ task_config = TaskConfig(BINARY, 1, 2, None, Some(42))
    /\ difficulty = DefaultDifficulty
    /\ reg_config = None
    /\ profile_table = PREDEFINED_MODEL_PROFILES
    /\ sims = [i \in SimIds |-> None]
    /\ returned = [i \in SimIds |-> None]
    /\ predictions = None
    /\ last_ctor = NoCall
    /\ numeric_only \in BOOLEAN
    /\ driver_call = None
    /\ driven = Driven(NoError, None, <<>>)
    /\ fn_args \in {Some(r) : r \in ApiRequests}
    /\ fn_result = None

ApiSimulate ==
    /\ Val(fn_args).endpoint = "/api/simulate"
    /\ fn_result' = Applied("/api/simulate", api_simulate(profile_table, Val(fn_args)))
    /\ UNCHANGED <<config_vars, sim_vars, driver_vars, fn_args>>

ApiLearningCurve ==
    /\ Val(fn_args).endpoint = "/api/learning_curve"
    /\ fn_result' = Applied("/api/learning_curve",
                            api_learning_curve(profile_table, Val(fn_args)))
    /\ UNCHANGED <<config_vars, sim_vars, driver_vars, fn_args>>

ApiScanDifficulty ==
    /\ Val(fn_args).endpoint = "/api/scan_difficulty"
    /\ fn_result' = Applied("/api/scan_difficulty",
                            api_scan_difficulty(profile_table, Val(fn_args), numeric_only))
    /\ UNCHANGED <<config_vars, sim_vars, driver_vars, fn_args>>

ApiExportCsv ==
    /\ Val(fn_args).endpoint = "/api/export/csv"
    /\ fn_result' = Applied("/api/export/csv", export_csv(profile_table, Val(fn_args)))
    /\ UNCHANGED <<config_vars, sim_vars, driver_vars, fn_args>>

NextApi == ApiSimulate \/ ApiLearningCurve \/ ApiScanDifficulty \/ ApiExportCsv

SpecApi == InitApi /\ [][NextApi]_vars

\* ------------------------------------------- state machine of the rank-sum AUC
\* binary labels and probability rows of up to one sample more than the
\* orchestrator's runs
RankingInputs ==
    UNION {{[y_true |-> y_true, y_prob |-> y_prob, n_classes |-> 2] :
               y_true \in [1..n -> {0, 1}], y_prob \in [1..n -> ProbRows(2)]} :
           n \in 1..(MaxSamples + 1)}

InitRanking ==
    /\ task_config = TaskConfig(BINARY, 1, 2, None, Some(42))
    /\ difficulty = DefaultDifficulty
    /\ reg_config = None
    /\ profile_table = PREDEFINED_MODEL_PROFILES
    /\ sims = [i \in SimIds |-> None]
    /\ returned = [i \in SimIds |-> None]
    /\ predictions = None
    /\ last_ctor = NoCall
    /\ numeric_only = TRUE
    /\ driver_call = None
    /\ driven = Driven(NoError, None, <<>>)
    /\ fn_args \in {Some(a) : a \in RankingInputs}
    /\ fn_result = None

NextRanking == BinaryAuc

SpecRanking == InitRanking /\ [][NextRanking]_vars

\* ------------------------------------------------------------------ claims
IsClassification(tc) == tc.task_type # REGRESSION
SameConfig(a, b) ==
    /\ a.task_config = b.task_config
    /\ a.difficulty = b.difficulty
    /\ a.model_profile = b.model_profile
    /\ a.reg_config = b.reg_config

\* C1: two instances constructed with equal TaskConfig (integer
\* random_state), DifficultyConfig, model profile and RegressionConfig return
\* identical metric records from simulate(), and so do two successive
\* simulate() calls on one instance.
C1_TwoInstances ==
    \A i, j \in SimIds :
        (/\ ~IsNone(returned[i])
         /\ ~IsNone(returned[j])
         /\ ~IsNone(Val(returned[i]).self.task_config.random_state)
         /\ SameConfig(Val(returned[i]).self, Val(returned[j]).self))
        => Val(returned[i]).metrics = Val(returned[j]).metrics
C1_SuccessiveCalls ==
    \A i \in SimIds :
        (/\ ~IsNone(returned[i])
         /\ ~IsNone(returned'[i])
         /\ ~IsNone(Val(returned[i]).self.task_config.random_state))
        => Val(returned'[i]).metrics = Val(returned[i]).metrics
C1_Determinism == []C1_TwoInstances /\ [][C1_SuccessiveCalls]_vars
C1_Witness ==
    /\ ~IsNone(returned[1])
    /\ ~IsNone(returned[2])
    /\ ~IsNone(task_config.random_state)
    /\ task_config.num_samples = MaxSamples
    /\ SameConfig(Val(returned[1]).self, Val(returned[2]).self)

\* C2: the cached labels y_true of an instance never change after
\* construction, whatever simulate() and get_predictions() calls follow, and
\* every simulate() call computes its metrics against those cached labels.
C2_LabelsKept ==
    \A i \in SimIds :
        ~IsNone(sims[i]) =>
            /\ ~IsNone(sims'[i])
            /\ Val(sims'[i]).y_true = Val(sims[i]).y_true
C2_MetricsOnCachedLabels ==
    \A i \in SimIds :
        ~IsNone(returned[i]) =>
            /\ ~IsNone(sims[i])
            /\ Val(returned[i]).y_true = Val(sims[i]).y_true
            /\ Len(Val(returned[i]).y_pred) = Len(Val(sims[i]).y_true)
C2_LabelsOnce == [][C2_LabelsKept]_vars /\ []C2_MetricsOnCachedLabels
C2_Witness ==
    /\ ~IsNone(returned[1])
    /\ ~IsNone(predictions)
    /\ Val(predictions).by = 1
    /\ IsNone(task_config.random_state)

\* C3: a constructor call with a model name that is no key of the
\* named-profile table fails with a ValueError listing the table's keys,
\* before generate_labels is reached, and leaves no instance; a ModelProfile
\* value is taken as the instance's profile as it is, without a lookup.
C3_UnknownModel ==
    last_ctor.called =>
        /\ (last_ctor.model.isstr /\ ~Has(profile_table, last_ctor.model.name)) =>
              /\ last_ctor.error = ValueError("unknown model", Keys(profile_table))
              /\ ~last_ctor.generated_labels
              /\ IsNone(sims[last_ctor.slot])
        /\ ~last_ctor.model.isstr =>
              /\ last_ctor.error.what # "unknown model"
              /\ last_ctor.generated_labels
              /\ ~IsNone(sims[last_ctor.slot]) =>
                    Val(sims[last_ctor.slot]).model_profile = last_ctor.model.profile
C3_Witness ==
    /\ last_ctor.called
    /\ last_ctor.model = Named("unknown")
    /\ last_ctor.error.type = "ValueError"

\* the constructor call reached generate_labels on a classification task
\* with a label_distribution supplied
C4_Case ==
    /\ last_ctor.called
    /\ last_ctor.generated_labels
    /\ IsClassification(task_config)
    /\ ~IsNone(task_config.label_distribution)
C4_Mismatch == Len(Val(task_config.label_distribution)) # task_config.n_classes
C4_Fails ==
    /\ last_ctor.error.type = "ValueError"
    /\ IsNone(sims[last_ctor.slot])
C4_Succeeds ==
    /\ last_ctor.error = NoError
    /\ RatSum(last_ctor.class_probs) = One
    /\ ~IsNone(sims[last_ctor.slot])

\* C4 as claimed: a label_distribution whose length differs from n_classes
\* makes construction fail with a ValueError and no labels; with a matching
\* length the distribution is renormalized to sum 1 and no error is raised.
C4_Original ==
    C4_Case => IF C4_Mismatch THEN C4_Fails ELSE C4_Succeeds

\* C4 as amended: a length mismatch fails with a ValueError and no labels;
\* a matching length with non-negative weights of positive sum is
\* renormalized to sum 1 without error; a matching length with weights
\* summing to zero fails with a ValueError as well.
C4_Amended ==
    C4_Case =>
        LET w == Val(task_config.label_distribution)
        IN IF C4_Mismatch THEN C4_Fails
           ELSE IF SeqSum(w) > 0 /\ \A j \in 1..Len(w) : w[j] >= 0 THEN C4_Succeeds
           ELSE SeqSum(w) = 0 => C4_Fails
C4_Witness ==
    /\ C4_Case
    /\ ~C4_Mismatch
    /\ C4_Succeeds
    /\ Val(task_config.label_distribution) = <<3, 1>>
    /\ last_ctor.class_probs = <<(<<3, 4>>), (<<1, 4>>)>>

\* C5 as claimed: every metrics record returned by simulate(), for binary,
\* multiclass and regression tasks alike, has the key task_type.
C5_TaskTypeTag ==
    \A i \in SimIds :
        ~IsNone(returned[i]) => "task_type" \in DOMAIN Val(returned[i]).metrics

BinaryKeys == {"task_type", "accuracy", "precision", "recall", "f1", "roc_auc", "pr_auc",
               "logloss"}
MulticlassKeys == {"task_type", "accuracy", "macro_f1", "weighted_f1", "logloss",
                   "top_3_accuracy"}
RegressionKeys == {"mae", "rmse", "r2"}

\* C6 as claimed: the metric set is determined by the configured task kind:
\* a BINARY task yields the binary metrics tagged binary, a MULTICLASS task
\* the multiclass metrics tagged multiclass, for every n_classes >= 2, and a
\* REGRESSION task yields mae, rmse and r2.
C6_MetricSetByTaskKind ==
    \A i \in SimIds :
        ~IsNone(returned[i]) =>
            LET m == Val(returned[i]).metrics
                tt == Val(returned[i]).self.task_config.task_type
            IN /\ tt = BINARY =>
                    BinaryKeys \subseteq DOMAIN m /\ m.task_type = "binary"
               /\ tt = MULTICLASS =>
                    MulticlassKeys \subseteq DOMAIN m /\ m.task_type = "multiclass"
               /\ tt = REGRESSION => RegressionKeys \subseteq DOMAIN m

\* C7 as claimed: the record of a classification task has an n_classes entry
\* equal to the configured class count and an AUC in [0,1] under the key auc
\* (two classes) or auc_ovr_macro (more than two).
C7_AucAndClassCount ==
    \A i \in SimIds :
        (~IsNone(returned[i]) /\ IsClassification(Val(returned[i]).self.task_config)) =>
            LET m == Val(returned[i]).metrics
                k == Val(returned[i]).self.task_config.n_classes
                key == IF k = 2 THEN "auc" ELSE "auc_ovr_macro"
            IN /\ "n_classes" \in DOMAIN m
               /\ m["n_classes"] = k
               /\ key \in DOMAIN m
               /\ InUnit(m[key])

\* the records returned for a binary task with two classes
C8_Records ==
    {Val(returned[i]) : i \in {j \in SimIds :
        /\ ~IsNone(returned[j])
        /\ Val(returned[j]).self.task_config.task_type = BINARY
        /\ Val(returned[j]).self.task_config.n_classes = 2}}
C8_BothClasses(y) == (\E i \in 1..Len(y) : y[i] = 1) /\ (\E i \in 1..Len(y) : y[i] = 0)

\* C8 as claimed: for every binary configuration each of accuracy, roc_auc,
\* pr_auc, precision, recall and f1 of the returned record is in [0,1].
C8_Original ==
    \A r \in C8_Records :
        \A key \in {"accuracy", "roc_auc", "pr_auc", "precision", "recall", "f1"} :
            InUnit(r.metrics[key])

\* C8 as amended: accuracy, pr_auc, precision, recall and f1 are in [0,1];
\* roc_auc is in [0,1] when both classes occur among the labels and is the
\* undefined value NaN when one of them is absent.
C8_Amended ==
    \A r \in C8_Records :
        /\ \A key \in {"accuracy", "pr_auc", "precision", "recall", "f1"} :
              InUnit(r.metrics[key])
        /\ IF C8_BothClasses(r.y_true) THEN InUnit(r.metrics.roc_auc)
           ELSE IsNaN(r.metrics.roc_auc)
C8_Witness ==
    \E r \in C8_Records :
        /\ C8_BothClasses(r.y_true)
        /\ InUnit(r.metrics.roc_auc)
        /\ r.metrics.roc_auc # Zero
        /\ r.metrics.precision # Zero

ValidLabels(tc) ==
    \/ tc.task_type = REGRESSION
    \/ IsNone(tc.label_distribution)
    \/ /\ Len(Val(tc.label_distribution)) = tc.n_classes
       /\ \A j \in 1..tc.n_classes : Val(tc.label_distribution)[j] >= 0
       /\ SeqSum(Val(tc.label_distribution)) > 0

Called(op) == ~IsNone(driver_call) /\ Val(driver_call).op = op
Overridden(custom_profiles, name) ==
    ~IsNone(custom_profiles) /\ Has(Val(custom_profiles), name)

\* C9: compare_models returns one row per entry of model_names, in request
\* order, each tagged in column model with that entry; a name present in
\* custom_profiles runs with the supplied profile, whether or not the table
\* knows the name, and every other name is resolved through the table (and
\* the call fails when the table does not know it).
C9_CompareModels ==
    Called("compare_models") =>
        LET names == Val(driver_call).model_names
            custom == Val(driver_call).custom_profiles
            resolvable(i) == Overridden(custom, names[i]) \/ Has(profile_table, names[i])
        IN /\ driven.error = NoError =>
                 /\ Len(Val(driven.df).rows) = Len(names)
                 /\ Len(driven.runs) = Len(names)
                 /\ \A i \in 1..Len(names) :
                        /\ Val(driven.df).rows[i].model = names[i]
                        /\ Val(driven.df).rows[i] =
                               [model |-> names[i]] @@ driven.runs[i].metrics
           /\ \A i \in 1..Len(driven.runs) :
                 driven.runs[i].self.model_profile =
                     IF Overridden(custom, names[i]) THEN Lookup(Val(custom), names[i])
                     ELSE Lookup(profile_table, names[i])
           /\ (\A i \in 1..Len(names) : resolvable(i)) /\ ValidLabels(task_config)
                 => driven.error = NoError
           /\ driven.error = NoError => \A i \in 1..Len(names) : resolvable(i)
C9_Witness ==
    /\ Called("compare_models")
    /\ Val(driver_call).model_names = <<"mine", "rf">>
    /\ Overridden(Val(driver_call).custom_profiles, "mine")
    /\ ~Has(profile_table, "mine")
    /\ driven.error = NoError
    /\ Len(Val(driven.df).rows) = 2
    /\ driven.runs[1].self.model_profile = CustomProfile

C10_Shape(row_count) ==
    LET a == Val(driver_call)
        df == Val(driven.df)
        by == a.difficulty_param
    IN /\ Len(df.rows) = row_count
       /\ \A i, j \in 1..Len(df.rows) : i < j => df.rows[i][by] <= df.rows[j][by]
       /\ by \in df.columns
       /\ \A k \in 1..Len(driven.runs) : \A m \in DOMAIN driven.runs[k].metrics :
              m # "task_type" =>
                 /\ {m \o "_mean", m \o "_std"} \subseteq df.columns
                 /\ \A i \in 1..Len(df.rows) :
                        {m \o "_mean", m \o "_std"} \subseteq DOMAIN df.rows[i]

UnknownModel == ValueError("unknown model", Keys(profile_table))

\* C11: a driver call with a model name that cannot be resolved fails as a
\* whole: compare_models, scan_difficulty and simulate_learning_curve raise
\* and return no table, also when earlier names were processed; with
\* otherwise valid arguments the error raised is the unknown-model error.
C11_FailsAsAWhole ==
    /\ Called("compare_models") =>
          LET names == Val(driver_call).model_names
              custom == Val(driver_call).custom_profiles
          IN (\E i \in 1..Len(names) :
                 ~Overridden(custom, names[i]) /\ ~Has(profile_table, names[i]))
             => /\ driven.error # NoError
                /\ IsNone(driven.df)
                /\ ValidLabels(task_config) => driven.error = UnknownModel
    /\ Called("scan_difficulty") =>
          (~Has(profile_table, Val(driver_call).model_name)
             => /\ driven.error # NoError
                /\ IsNone(driven.df)
                /\ (/\ Len(Val(driver_call).difficulty_values) > 0
                    /\ Val(driver_call).difficulty_param \in DOMAIN DefaultDifficulty)
                   => driven.error = UnknownModel)
    /\ Called("simulate_learning_curve") =>
          (~Has(profile_table, Val(driver_call).model_name)
             => /\ driven.error # NoError
                /\ IsNone(driven.df)
                /\ (Len(Val(driver_call).train_sizes) > 0 /\ ValidLabels(task_config))
                   => driven.error = UnknownModel)
C11_Witness ==
    /\ Called("compare_models")
    /\ Val(driver_call).model_names = <<"rf", "unknown">>
    /\ Len(driven.runs) = 1
    /\ driven.error = UnknownModel
    /\ IsNone(driven.df)

Returned(fn) == ~IsNone(fn_result) /\ Val(fn_result).fn = fn
Present(y, c) == \E i \in 1..Len(y) : y[i] = c
Absent(y, c) == \A i \in 1..Len(y) : y[i] # c

\* C12: the rank-sum AUC is NaN exactly when the positive or the negative
\* class is absent from the labels; the one-vs-rest macro AUC is the mean
\* of the per-class AUCs of the classes that are neither absent nor the
\* only class present, and NaN only when there is no such class.
C12_UndefinedAuc ==
    /\ Returned("_binary_auc") =>
          (IsNaN(Val(fn_result).value)
             <=> Absent(Val(fn_args).y_true, 1) \/ Absent(Val(fn_args).y_true, 0))
    /\ Returned("_multiclass_auc_ovr_macro") =>
          LET a == Val(fn_args)
              defined == Sorted({c \in 0..(a.n_classes - 1) :
                                    Present(a.y_true, c) /\ ~(\A i \in 1..Len(a.y_true) : a.y_true[i] = c)})
          IN IF Len(defined) = 0 THEN IsNaN(Val(fn_result).value)
             ELSE Val(fn_result).value =
                      RatDivInt(RatSum([j \in 1..Len(defined) |->
                                          OvrAuc(a.y_true, a.y_prob, defined[j])]),
                                Len(defined))
C12_Witness ==
    /\ Returned("_multiclass_auc_ovr_macro")
    /\ Val(fn_args).n_classes = 3
    /\ Absent(Val(fn_args).y_true, 2)
    /\ Present(Val(fn_args).y_true, 0)
    /\ Present(Val(fn_args).y_true, 1)
    /\ Finite(Val(fn_result).value)

\* C13: simulate() on a classification task with a class count below 2
\* fails: no record is ever returned for such a task.
C13_ClassCountRejected ==
    \A i \in SimIds :
        (~IsNone(returned[i]) /\ IsClassification(Val(returned[i]).self.task_config))
            => Val(returned[i]).self.task_config.n_classes >= 2

\* C14: two instances whose configurations (integer seed) differ in
\* DifficultyConfig.spurious_correlation only return the same predictions
\* and the same metrics record from simulate(), for every task kind.
C14_SpuriousUnused ==
    \A i, j \in SimIds :
        (/\ ~IsNone(returned[i])
         /\ ~IsNone(returned[j])
         /\ ~IsNone(Val(returned[i]).self.task_config.random_state)
         /\ SameConfig([Val(returned[i]).self EXCEPT !.difficulty.spurious_correlation = 0],
                       [Val(returned[j]).self EXCEPT !.difficulty.spurious_correlation = 0]))
        => /\ Val(returned[i]).y_pred = Val(returned[j]).y_pred
           /\ Val(returned[i]).metrics = Val(returned[j]).metrics
C14_Witness ==
    /\ ~IsNone(returned[1])
    /\ ~IsNone(returned[2])
    /\ Val(returned[1]).self.difficulty.spurious_correlation = 0
    /\ Val(returned[2]).self.difficulty.spurious_correlation = 900
    /\ Val(returned[1]).self.model_profile = Val(returned[2]).self.model_profile
    /\ IsClassification(task_config)

\* C15: a simulate_learning_curve call that returns has one row per entry
\* of train_sizes, in input order (row k carries train_ratio = train_sizes[k]),
\* with the columns train_ratio, base_accuracy, target_accuracy and the
\* metric columns of the run; point k ran the orchestrator on the caller's
\* unchanged task config, all points on the same labels, and on a difficulty
\* that differs from the caller's in the separability field only.
C15_CurveFrame ==
    (Called("simulate_learning_curve") /\ driven.error = NoError) =>
        LET train_sizes == Val(driver_call).train_sizes
            df == Val(driven.df)
        IN /\ Len(df.rows) = Len(train_sizes)
           /\ Len(driven.runs) = Len(train_sizes)
           /\ {"train_ratio", "base_accuracy", "target_accuracy"} \subseteq df.columns
           /\ \A k \in 1..Len(train_sizes) :
                 /\ df.rows[k].train_ratio = Cell(train_sizes[k])
                 /\ DOMAIN df.rows[k]
                        = {"train_ratio", "base_accuracy", "target_accuracy"}
                            \cup DOMAIN driven.runs[k].metrics
                 /\ \A m \in DOMAIN driven.runs[k].metrics :
                        df.rows[k][m] = driven.runs[k].metrics[m]
                 /\ driven.runs[k].self.task_config = task_config
                 /\ driven.runs[k].self.y_true = driven.runs[1].self.y_true
                 /\ Len(driven.runs[k].self.y_true) = task_config.num_samples
                 /\ [driven.runs[k].self.difficulty
                        EXCEPT !.separability = difficulty.separability] = difficulty
C15_Witness ==
    /\ Called("simulate_learning_curve")
    /\ driven.error = NoError
    /\ Val(driver_call).train_sizes = <<1000, 100>>
    /\ difficulty = HardDifficulty
    /\ driven.runs[1].self.difficulty.separability
          # driven.runs[2].self.difficulty.separability

\* C16: in the table of a simulate_learning_curve call, the row of the
\* largest requested fraction (normalized progress t = 1) has base_accuracy
\* equal to acc_100.
C16_ReachesAcc100 ==
    (Called("simulate_learning_curve") /\ driven.error = NoError) =>
        \A k \in 1..Len(Val(driver_call).train_sizes) :
            CurveT(Val(driver_call).train_sizes, Val(driver_call).train_sizes[k]) = Scale
                => Val(driven.df).rows[k].base_accuracy = Cell(Val(driver_call).shape.acc_100)

\* C17: the record that simulate() returns for a regression task (of at
\* least one sample, the invariant num_samples > 0 of a task config) has
\* rmse >= 0, mae >= 0 and r2 <= 1; when all targets are equal the record
\* is still returned and its r2 is a number (1 for a perfect fit, hugely
\* negative otherwise).
RegressionReturned(i) ==
    ~IsNone(returned[i]) /\ Val(returned[i]).self.task_config.task_type = REGRESSION
ZeroVariance(y) == \A a, b \in 1..Len(y) : y[a] = y[b]
RegressionBounds(m) == RatLe(Zero, m.rmse) /\ RatLe(Zero, m.mae) /\ RatLe(m.r2, One)
C17_RegressionBounds ==
    \A i \in SimIds :
        (RegressionReturned(i) /\ Val(returned[i]).self.task_config.num_samples >= 1)
            => /\ RegressionBounds(Val(returned[i]).metrics)
               /\ DOMAIN Val(returned[i]).metrics = {"rmse", "mae", "r2"}
               /\ ZeroVariance(Val(returned[i]).y_true)
                    => Val(returned[i]).metrics.r2 \in {One, <<-1, 0>>}
C17_Witness ==
    \E i \in SimIds :
        /\ RegressionReturned(i)
        /\ Len(Val(returned[i]).y_true) = 1
        /\ RatLe(Zero, Val(returned[i]).metrics.rmse)
        /\ Val(returned[i]).metrics.r2 = <<-1, 0>>

\* C18: the probability matrix that simulate() synthesizes for a
\* classification task has num_samples rows of n_classes entries, every
\* entry is non-negative, and every row sums to 1 up to the rounding of the
\* entries (each entry is rounded down by less than one unit of 1/PScale;
\* the two-class row <<1 - p, p>> sums to 1 exactly).
RowSum(row) == SeqSum(row)
C18_Rows ==
    \A i \in SimIds :
        (~IsNone(returned[i]) /\ IsClassification(Val(returned[i]).self.task_config)) =>
            LET tc == Val(returned[i]).self.task_config
                y_prob == Val(returned[i]).y_pred
            IN /\ Len(y_prob) = tc.num_samples
               /\ \A r \in 1..Len(y_prob) :
                     /\ Len(y_prob[r]) = tc.n_classes
                     /\ \A c \in 1..Len(y_prob[r]) : y_prob[r][c] >= 0
                     /\ RowSum(y_prob[r]) <= PScale
                     /\ PScale - RowSum(y_prob[r]) < tc.n_classes
                     /\ tc.n_classes = 2 => RowSum(y_prob[r]) = PScale
C18_Witness ==
    \E i \in SimIds :
        /\ ~IsNone(returned[i])
        /\ Val(returned[i]).self.task_config.task_type = MULTICLASS
        /\ Val(returned[i]).self.task_config.n_classes = 3
        /\ Len(Val(returned[i]).y_pred) >= 2
        /\ \A c \in 1..3 : Val(returned[i]).y_pred[1][c] \in 1..(PScale - 1)

\* C20: for a sample that the label-noise mask marks, the base signal of
\* every class is multiplied by 0.1: the true-class signal, and equally the
\* signal of every other class, which becomes -separability * 0.05; for a
\* sample that is not marked the signal of the true class is the full
\* true-class signal and that of every other class is -separability * 0.5.
\* (As first stated: for a marked sample the signal of every class other
\* than the true one stays -separability * 0.5.)
SignalOf(r) == Val(r).value
C20_Original ==
    (Returned("mu") /\ SignalOf(fn_result).noisy_mask
        /\ SignalOf(fn_result).c # SignalOf(fn_result).true_label)
        => SignalOf(fn_result).mu = -FMul(SignalOf(fn_result).difficulty.separability, 500)
C20_Amended ==
    Returned("mu") =>
        LET r == SignalOf(fn_result)
            full == IF r.c = r.true_label
                    THEN BaseSignal(r.difficulty, r.model_profile, r.true_label, r.true_label)
                    ELSE -FMul(r.difficulty.separability, 500)
        IN /\ ~r.noisy_mask => r.mu = full
           /\ r.noisy_mask => r.mu = FMul(full, 100)
           /\ (r.noisy_mask /\ r.c # r.true_label)
                 => r.mu = -FMul(r.difficulty.separability, 50)
C20_Witness ==
    /\ Returned("mu")
    /\ SignalOf(fn_result).noisy_mask
    /\ SignalOf(fn_result).c # SignalOf(fn_result).true_label
    /\ SignalOf(fn_result).mu = -FMul(SignalOf(fn_result).difficulty.separability, 50)
    /\ SignalOf(fn_result).mu # -FMul(SignalOf(fn_result).difficulty.separability, 500)

\* C21: with two classes, the positive-class probability of every sample
\* is the logistic transform of the class-1 logit of that sample, whatever
\* its true label, and the negative-class probability is its complement.
\* (As first stated: the logistic transform of the sample's true-class
\* logit, also for samples of true label 0.)
Synthesized == Returned("generate_classification_predictions") /\ SignalOf(fn_result).n_classes = 2
C21_Original ==
    Synthesized =>
        \A i \in 1..Len(SignalOf(fn_result).y_true) :
            /\ SignalOf(fn_result).y_prob[i][2]
                  = Sigmoid(SignalOf(fn_result).logits[i][SignalOf(fn_result).y_true[i] + 1])
            /\ SignalOf(fn_result).y_prob[i][1] = PScale - SignalOf(fn_result).y_prob[i][2]
C21_Amended ==
    Synthesized =>
        \A i \in 1..Len(SignalOf(fn_result).y_true) :
            /\ SignalOf(fn_result).y_prob[i][2] = Sigmoid(SignalOf(fn_result).logits[i][2])
            /\ SignalOf(fn_result).y_prob[i][1] = PScale - SignalOf(fn_result).y_prob[i][2]
C21_Witness ==
    /\ Synthesized
    /\ \E i \in 1..Len(SignalOf(fn_result).y_true) :
          /\ SignalOf(fn_result).y_true[i] = 0
          /\ SignalOf(fn_result).y_prob[i][2] = Sigmoid(SignalOf(fn_result).logits[i][2])
          /\ SignalOf(fn_result).y_prob[i][2] # Sigmoid(SignalOf(fn_result).logits[i][1])

\* C22: at every point of a learning curve, the separability of the
\* difficulty that the orchestrator ran on equals the target_accuracy
\* reported in the row of that point.
C22_SeparabilityIsTarget ==
    (Called("simulate_learning_curve") /\ driven.error = NoError) =>
        \A k \in 1..Len(driven.runs) :
            Cell(driven.runs[k].self.difficulty.separability)
                = Val(driven.df).rows[k].target_accuracy

\* C23: a scan_difficulty call with a known model name and a field of
\* DifficultyConfig as the swept parameter performs exactly
\* len(difficulty_values) * n_runs orchestrator runs; run r (from 0) of
\* every swept value runs on the caller's task config with the seed
\* random_state + r (no seed when random_state is None) and on the base
\* difficulty with the swept field set to the value; the call leaves the
\* caller's task config unchanged.
ScanLogged ==
    LET call == Val(driver_call)
        base == IF IsNone(call.base_difficulty) THEN DefaultDifficulty
                ELSE Val(call.base_difficulty)
    IN (Has(profile_table, call.model_name) /\ call.difficulty_param \in DOMAIN base) =>
          /\ Len(driven.runs) = Len(call.difficulty_values) * call.n_runs
          /\ \A v \in 1..Len(call.difficulty_values), r \in 0..(call.n_runs - 1) :
                LET run == driven.runs[(v - 1) * call.n_runs + r + 1].self
                IN /\ run.task_config.random_state
                         = IF IsNone(task_config.random_state) THEN None
                           ELSE Some(Val(task_config.random_state) + r)
                   /\ [run.task_config EXCEPT !.random_state = task_config.random_state]
                         = task_config
                   /\ run.difficulty[call.difficulty_param] = call.difficulty_values[v]
                   /\ \A f \in DOMAIN base \ {call.difficulty_param} :
                         run.difficulty[f] = base[f]
C23_ScanRuns ==
    [][Called("scan_difficulty")' => (ScanLogged' /\ task_config' = task_config)]_vars
C23_Witness ==
    /\ Called("scan_difficulty")
    /\ Len(driven.runs) = 4
    /\ driven.runs[2].self.task_config.random_state = Some(43)
    /\ driven.runs[3].self.task_config.random_state = Some(42)
    /\ Val(driver_call).base_difficulty = Some(HardDifficulty)
    /\ Val(driver_call).difficulty_param = "label_noise"
C23_WitnessUnseeded ==
    /\ Called("scan_difficulty")
    /\ IsNone(task_config.random_state)
    /\ Len(driven.runs) = 1

\* C24: binary precision, recall and F1 are never NaN: with no predicted
\* positive precision is 0, with no actual positive recall is 0, and with
\* precision + recall = 0 F1 is 0; otherwise they are tp / (tp + fp),
\* tp / (tp + fn) and 2pr / (p + r) = 2tp / (2tp + fp + fn).
Confusion(y_true, y_pred, t, p) == Cardinality({i \in 1..Len(y_true) : y_true[i] = t /\ y_pred[i] = p})
C24_Degenerate ==
    Returned("_precision_recall_f1_binary") =>
        LET r == SignalOf(fn_result)
            tp == Confusion(r.y_true, r.y_pred, 1, 1)
            fp == Confusion(r.y_true, r.y_pred, 0, 1)
            fn == Confusion(r.y_true, r.y_pred, 1, 0)
        IN /\ \A k \in 1..3 : ~IsNaN(r.prf[k]) /\ Finite(r.prf[k])
           /\ r.prf[1] = IF tp + fp = 0 THEN Zero ELSE Rat(tp, tp + fp)
           /\ r.prf[2] = IF tp + fn = 0 THEN Zero ELSE Rat(tp, tp + fn)
           /\ r.prf[3] = IF tp = 0 THEN Zero ELSE Rat(2 * tp, 2 * tp + fp + fn)
           /\ RatAdd(r.prf[1], r.prf[2]) = Zero => r.prf[3] = Zero
C24_Witness ==
    /\ Returned("_precision_recall_f1_binary")
    /\ Confusion(SignalOf(fn_result).y_true, SignalOf(fn_result).y_pred, 1, 1) = 0
    /\ Confusion(SignalOf(fn_result).y_true, SignalOf(fn_result).y_pred, 0, 1) = 0
    /\ Confusion(SignalOf(fn_result).y_true, SignalOf(fn_result).y_pred, 1, 0) = 0
    /\ SignalOf(fn_result).prf = <<Zero, Zero, Zero>>

\* C25: no step of a core operation (constructing an instance, simulate,
\* get_predictions, compare_models, simulate_learning_curve,
\* scan_difficulty), in any sequence, changes the named-profile table: its
\* keys and the fields of every profile are the same after the step.
C25_TableUnchanged ==
    [][/\ Keys(profile_table') = Keys(profile_table)
       /\ \A k \in 1..Len(profile_table) :
             profile_table'[k].profile = profile_table[k].profile]_vars
C25_Witness ==
    /\ ~IsNone(driver_call)
    /\ \E i \in SimIds : ~IsNone(returned[i]) /\ ~IsNone(predictions)
    /\ last_ctor.called /\ ~last_ctor.model.isstr
    /\ profile_table = PREDEFINED_MODEL_PROFILES

\* a request that has been answered, and whether handling it ran into the
\* named kind of error
ApiAnswered == ~IsNone(fn_result) /\ Val(fn_result).fn = Val(fn_args).endpoint
ApiUnknownToken(r) == r.task_type \notin TaskType
\* a run of a name that neither the table nor a custom profile resolves
ApiUnknownModel(r) ==
    /\ ~ApiUnknownToken(r)
    /\ \/ /\ r.endpoint = "/api/export/csv" \/ (r.endpoint = "/api/simulate" /\ r.experiment_type = "single")
          /\ \E i \in 1..Len(r.models) : r.models[i] = "unknown"
          /\ r.endpoint = "/api/simulate" => IsNone(r.custom_profile)
       \/ /\ r.endpoint = "/api/scan_difficulty"
          /\ r.model = "unknown" /\ Len(r.difficulty_values) > 0
\* a classification run under a label_distribution of three entries for two
\* classes
ApiDistributionMismatch(r) ==
    /\ r.task_type = BINARY
    /\ ~IsNone(r.label_distribution)
    /\ \/ r.endpoint = "/api/learning_curve" /\ Len(r.models) > 0
       \/ r.endpoint = "/api/export/csv" /\ Len(r.models) > 0
       \/ r.endpoint = "/api/simulate" /\ r.experiment_type = "single" /\ Len(r.models) > 0
       \/ r.endpoint = "/api/scan_difficulty" /\ Len(r.difficulty_values) > 0
                                              /\ r.difficulty_param \in DifficultyFields
\* a request every run of which succeeds
ApiWellFormed(r) ==
    /\ r.task_type \in {BINARY, REGRESSION}
    /\ r.task_type = BINARY => IsNone(r.label_distribution)
    /\ r.endpoint \in {"/api/export/csv", "/api/simulate"}
    /\ r.experiment_type = "single"
    /\ \A i \in 1..Len(r.models) : r.models[i] = "rf"

\* C26: every JSON endpoint answers a request whose handling raises an
\* error (an unknown task-type token, an unknown model name, a
\* label_distribution of the wrong length, or any other) with success =
\* false, an error message and status 500, and answers a request handled
\* without error with success = true.
C26_ErrorsMapped ==
    ApiAnswered =>
        /\ Val(fn_result).value.success = (Val(fn_result).value.error = NoError)
        /\ ~Val(fn_result).value.success =>
              /\ Val(fn_result).value.status = 500
              /\ Val(fn_result).value.error.what # ""
              /\ IsNone(Val(fn_result).value.body)
        /\ Val(fn_result).value.success => ~IsNone(Val(fn_result).value.body)
        /\ ApiUnknownToken(Val(fn_args)) =>
              /\ ~Val(fn_result).value.success
              /\ Val(fn_result).value.error.type = "ValueError"
        /\ (ApiUnknownModel(Val(fn_args)) \/ ApiDistributionMismatch(Val(fn_args))) =>
              ~Val(fn_result).value.success
        /\ ApiWellFormed(Val(fn_args)) => Val(fn_result).value.success
C26_Witness ==
    /\ ApiAnswered
    /\ Val(fn_args).endpoint = "/api/scan_difficulty"
    /\ ApiUnknownModel(Val(fn_args))
    /\ Val(fn_result).value.status = 500
    /\ ~Val(fn_result).value.success

\* the last get_predictions() was made on instance i, which has also run
\* simulate()
BothCalled(i) ==
    /\ ~IsNone(predictions) /\ Val(predictions).by = i
    /\ ~IsNone(returned[i])

\* C27: under an integer random_state, get_predictions() returns exactly the
\* array simulate() computed its metrics from, in whichever order and however
\* often the two are called on an instance (under random_state = None the two
\* draw from fresh streams and can differ: C27_WitnessUnseeded).
C27_SamePredictions ==
    \A i \in SimIds :
        (BothCalled(i) /\ ~IsNone(task_config.random_state)) =>
            Val(predictions).value = Val(returned[i]).y_pred
C27_Witness ==
    /\ ~IsNone(task_config.random_state)
    /\ task_config.num_samples >= 1
    /\ BothCalled(1)
    /\ Val(predictions).value = Val(returned[1]).y_pred
    /\ Len(Val(predictions).value) = task_config.num_samples
C27_WitnessUnseeded ==
    /\ IsNone(task_config.random_state)
    /\ BothCalled(1)
    /\ Val(predictions).value # Val(returned[1]).y_pred

\* two instances that ran simulate() and agree on what a regression reads:
\* sample count and seed, the profile's capacity and variance, and the
\* RegressionConfig
SameRegressionInputs(a, b) ==
    /\ a.task_config.num_samples = b.task_config.num_samples
    /\ a.task_config.random_state = b.task_config.random_state
    /\ a.model_profile.capacity = b.model_profile.capacity
    /\ a.model_profile.variance = b.model_profile.variance
    /\ a.reg_config = b.reg_config
DifferentSettings(a, b) ==
    /\ a.difficulty # b.difficulty
    /\ a.task_config.n_classes # b.task_config.n_classes
    /\ a.task_config.label_distribution # b.task_config.label_distribution

Concordant(y_true, y_score) ==
    Cardinality({pr \in (1..Len(y_true)) \X (1..Len(y_true)) :
                    /\ y_true[pr[1]] = 1 /\ y_true[pr[2]] = 0
                    /\ y_score[pr[1]] > y_score[pr[2]]})
NoTies(y_score) == \A i, j \in 1..Len(y_score) : y_score[i] = y_score[j] => i = j
SampleOrders(n) == {p \in [1..n -> 1..n] : \A i, j \in 1..n : p[i] = p[j] => i = j}
Permuted(x, p) == [i \in 1..Len(x) |-> x[p[i]]]
\* twice the rank-sum numerator: 2 * (sum of positive ranks) - n_pos * (n_pos + 1)
TwiceNumerator(y_true, y_score) ==
    2 * SeqSum([i \in 1..Len(y_true) |-> IF y_true[i] = 1 THEN RankAsc(y_score, i) ELSE 0])
        - Count([i \in 1..Len(y_true) |-> y_true[i] = 1])
            * (Count([i \in 1..Len(y_true) |-> y_true[i] = 1]) + 1)
PairCount(y_true) ==
    Count([i \in 1..Len(y_true) |-> y_true[i] = 1]) * Count([i \in 1..Len(y_true) |-> y_true[i] = 0])

\* C29: with both classes present the rank-sum numerator lies in
\* [0, n_pos * n_neg] and the AUC in [0, 1]; when no two samples share a
\* score the AUC is the number of (positive, negative) pairs with the
\* positive scored higher, divided by n_pos * n_neg, whatever the order of
\* the samples.
C29_RankSumAuc ==
    (/\ Returned("_binary_auc")
     /\ Present(Val(fn_args).y_true, 1) /\ Present(Val(fn_args).y_true, 0)) =>
        /\ TwiceNumerator(Val(fn_args).y_true, Column(Val(fn_args).y_prob, 1)) >= 0
        /\ TwiceNumerator(Val(fn_args).y_true, Column(Val(fn_args).y_prob, 1))
              <= 2 * PairCount(Val(fn_args).y_true)
        /\ Val(fn_result).value[2] > 0
        /\ Val(fn_result).value[1] >= 0
        /\ Val(fn_result).value[1] <= Val(fn_result).value[2]
        /\ NoTies(Column(Val(fn_args).y_prob, 1)) =>
              /\ Val(fn_result).value
                    = Rat(Concordant(Val(fn_args).y_true, Column(Val(fn_args).y_prob, 1)),
                          PairCount(Val(fn_args).y_true))
              /\ \A p \in SampleOrders(Len(Val(fn_args).y_true)) :
                    _binary_auc(Permuted(Val(fn_args).y_true, p),
                                Permuted(Column(Val(fn_args).y_prob, 1), p))
                        = Val(fn_result).value
C29_Witness ==
    /\ Returned("_binary_auc")
    /\ Len(Val(fn_args).y_true) = MaxSamples + 1
    /\ Present(Val(fn_args).y_true, 1) /\ Present(Val(fn_args).y_true, 0)
    /\ NoTies(Column(Val(fn_args).y_prob, 1))
    /\ Concordant(Val(fn_args).y_true, Column(Val(fn_args).y_prob, 1)) = 1
    /\ Val(fn_result).value = Rat(1, PairCount(Val(fn_args).y_true))

\* the classes (from 0) of maximal probability in a row
Maximal(row) ==
    {c \in 0..(Len(row) - 1) : \A d \in 0..(Len(row) - 1) : row[d + 1] <= row[c + 1]}
\* sample i is predicted as class c: c is the lowest maximal class of its row
PredictedAs(y_prob, i, c) ==
    c \in Maximal(y_prob[i]) /\ \A d \in Maximal(y_prob[i]) : c <= d
Correct(y_true, y_prob) ==
    {i \in 1..Len(y_true) : PredictedAs(y_prob, i, y_true[i])}
\* of two classes, sample i is predicted positive iff class 1 is strictly
\* more probable than class 0
PositiveIffStrictlyGreater(y_prob, i) ==
    PredictedAs(y_prob, i, 1) <=> y_prob[i][2] > y_prob[i][1]

\* C30: the predicted label is the lowest-indexed class of maximal
\* probability (of two classes: positive iff the class-1 probability is
\* strictly greater, a 0.5/0.5 tie being class 0), and accuracy is the
\* fraction of samples whose predicted label equals the true label.
C30_PredictedLabel ==
    /\ Returned("compute_classification_metrics") =>
          /\ Val(fn_result).value.accuracy
                = Rat(Cardinality(Correct(Val(fn_args).y_true, Val(fn_args).y_prob)),
                      Len(Val(fn_args).y_true))
          /\ Val(fn_args).n_classes = 2 =>
                \A i \in 1..Len(Val(fn_args).y_true) :
                    PositiveIffStrictlyGreater(Val(fn_args).y_prob, i)
    /\ Returned("_precision_recall_f1_binary") =>
          \A i \in 1..Len(Val(fn_args).y_true) :
              /\ PredictedAs(Val(fn_args).y_prob, i, Val(fn_result).value.y_pred[i])
              /\ Val(fn_result).value.y_pred[i] = 1
                    <=> Val(fn_args).y_prob[i][2] > Val(fn_args).y_prob[i][1]
C30_Witness ==
    /\ Returned("compute_classification_metrics")
    /\ Val(fn_args).n_classes = 2
    /\ Len(Val(fn_args).y_true) = 2
    /\ Val(fn_args).y_true = <<0, 1>>
    /\ Val(fn_args).y_prob = <<<<500000, 500000>>, <<500000, 500000>>>>
    /\ Val(fn_result).value.accuracy = Rat(1, 2)

============================================================================
